---------------------------- MODULE Spec2Model ----------------------------
(***************************************************************************)
(* Model of the literacy-assessment persistence and validation core:       *)
(*   examples/literacy_assessment/src/s3_uploader.py  (retry wrapper,      *)
(*     single store, batch store, the upload_assessment_to_s3 tool)        *)
(*   examples/literacy_assessment/src/questions.py    (validators)         *)
(*   examples/literacy_assessment/src/models.py       (Assessment model)   *)
(*                                                                         *)
(* Text is a sequence of character codes (ASCII), module names are small   *)
(* integers ordered the way the names sort, a timestamp is a number of     *)
(* sub-second clock ticks.                                                 *)
(***************************************************************************)
EXTENDS Integers, Sequences, FiniteSets, Bags, TLC

VARIABLES
  clock,            \* the wall clock, in ticks
  store,            \* the bucket: the bag of keys put_object has written
  wrapper,          \* retry: the locals of one running wrapper call
  pc,               \* tool: "idle", "json", "markdown" or "done"
  level_arg,        \* tool: the level argument
  tool_assessment,  \* tool: the parsed Assessment
  tool_timestamp,   \* tool: the timestamp taken before the two uploads
  s3_uri_json,      \* tool: the locator the JSON upload returned
  result,           \* tool: the dict returned
  raised,           \* tool: the exception caught at the tool's boundary
  written,          \* tool: the keys put_object wrote during this call
  ncalls,           \* tool: calls made so far
  bpc,              \* batch: "idle", "submit", "collect", "returned", "raised"
  assessments,      \* batch: the Assessment objects handed in
  formats,          \* batch: the formats asked for
  btimestamp,       \* batch: the one timestamp of the batch
  tasks,            \* batch: the futures, in submission order
  results,          \* batch: the dict being filled, level n for "level_{n}"
  vpc,              \* validation: "idle", "start", "validated" or "created"
  vin,              \* validation: the arguments
  vresult,          \* validation: what validate_assessment returned
  created,          \* validation: what create_assessment_from_questions did
  dpc,              \* document: "idle", "start", "failed", "built", "dumped",
                    \*   "rendered" or "reloaded"
  gen_json,         \* document: the JSON text the generator hands to the tool
  built_obj,        \* document: the Assessment built from it
  content_json,     \* document: the structured content prepared for storage
  content_markdown, \* document: the readable content prepared for storage
  reloaded,         \* document: the Assessment decoded from content_json
  ppc,              \* background: "idle", "start" or "parsed"
  ptext,            \* background: the text to parse
  profile,          \* background: what parse_user_background_simple did
  kpc,              \* content: "idle", "start", "extracted", "modules",
                    \*   "returned" or "raised"
  klevel,           \* content: the level argument
  ktarget,          \* content: target_module_count
  koverview,        \* content: the results of the overview query
  kmodules,         \* content: the module names extracted
  kqueries,         \* content: the queries issued so far, with their outcomes
  kcontent,         \* content: the dict module_content
  kexc,             \* content: the exception that left the function
  mpc,              \* multi-level: "idle", "running", "waited" or "done"
  mlevels,          \* multi-level: the levels requested
  mdone,            \* multi-level: the workers' results, as they completed
  mresult           \* multi-level: the MultiLevelAssessmentResult built

(***************************************************************************)
(* Bounds of the model and program constants.                              *)
(***************************************************************************)
\* clock ticks per second: datetime.now() is finer than the key's seconds
TicksPerSecond == 2
\* how many times the tool is called in one behaviour
MaxToolCalls == 2
\* largest level value offered as input (valid levels are 1..4)
MaxLevelIn == 5
\* the clock stops at this tick
MaxClock == 3
\* largest number of distinct module names among the questions offered
MaxModules == 6
\* the most futures one batch submits
MaxTasks == 6
\* how many writes of one batch may fail
MaxFail == 1
\* the most tokens a background text is put together from
MaxWords == 3
\* the most headings of the catalogue an overview lists
MaxNames == 7
\* the most levels of one request
MaxRequested == 3

\* retry_with_backoff(max_attempts=3, ...) on _upload_with_retry
max_attempts == 3
\* ThreadPoolExecutor(max_workers=5)
max_workers == 5
\* exactly 7 multiple choice questions, 3 open-ended questions
NumMC == 7
NumOE == 3
\* at least 5 distinct modules
MinModules == 5
\* levels 1..4
MinLevel == 1
MaxLevel == 4
\* exactly 4 options, 3 to 7 key points
\* extract_modules_from_overview: fewer names than 6 are padded to 6
TargetModules == 6
\* a module name is shorter than 100 characters
MaxNameLen == 100

NumOptions == 4
MinKeyPoints == 3
MaxKeyPoints == 7

\* backoff_seconds=[1, 2, 4]
backoff_seconds == <<1, 2, 4>>

S3_PREFIX == "learning_path/assessments"
S3_BUCKET_NAME == "bucket"

\* Python's None
None == [none |-> TRUE]

(***************************************************************************)
(* Text helpers: str.lower() and str.strip().                              *)
(***************************************************************************)
LowerChar(c) == IF c \in 65..90 THEN c + 32 ELSE c

Lower(s) == [i \in 1..Len(s) |-> LowerChar(s[i])]

IsSpace(c) == c \in {9, 10, 11, 12, 13, 32}

RECURSIVE LStrip(_)
LStrip(s) == IF s # <<>> /\ IsSpace(Head(s)) THEN LStrip(Tail(s)) ELSE s

RECURSIVE RStrip(_)
RStrip(s) ==
  IF s # <<>> /\ IsSpace(s[Len(s)]) THEN RStrip(SubSeq(s, 1, Len(s) - 1)) ELSE s

Strip(s) == RStrip(LStrip(s))

\* sorted(list(set)) of module names
RECURSIVE SortedList(_)
SortedList(S) ==
  IF S = {} THEN <<>>
  ELSE LET m == CHOOSE x \in S : \A y \in S : x <= y
       IN <<m>> \o SortedList(S \ {m})

SeqToSet(s) == {s[i] : i \in 1..Len(s)}

(***************************************************************************)
(* retry_with_backoff: one iteration of the wrapper's loop.                *)
(***************************************************************************)
PermanentCodes == {"NoSuchBucket", "AccessDenied", "InvalidBucketName"}

TransientCodes ==
  {"Throttling", "ServiceUnavailable", "RequestTimeout", "RequestTimeTooSkewed"}

\* codes put_object may fail with; "Unknown" is what a ClientError without a
\* code is read as, "InternalError" is a code in neither list
ErrorCodes == PermanentCodes \cup TransientCodes \cup {"Unknown", "InternalError"}

Ok == [type |-> "ok", code |-> "none"]

NoExc == [type |-> "none", code |-> "none"]

\* what one call of put_object does: succeed, raise ClientError with a code,
\* or raise an exception that is no ClientError
Outcomes ==
  {Ok} \cup {[type |-> "ClientError", code |-> c] : c \in ErrorCodes}
       \cup {[type |-> "EndpointConnectionError", code |-> "none"]}

NewWrapper ==
  [attempt |-> 0, calls |-> 0, slept |-> <<>>, outcomes |-> <<>>,
   status |-> "running", exc |-> NoExc]

\* a wrapper that reads the schedule one entry too far
SleepTimeNextEntry(attempt) ==
  IF attempt + 1 < Len(backoff_seconds) THEN backoff_seconds[attempt + 2]
  ELSE backoff_seconds[Len(backoff_seconds)]

SleepTime(attempt) ==
  IF attempt < Len(backoff_seconds) THEN backoff_seconds[attempt + 1]
  ELSE backoff_seconds[Len(backoff_seconds)]

IsPermanent(code) == code \in PermanentCodes

\* a wrapper that takes every ClientError code for a transient one
IsTransientAnyCode(code) == TRUE

IsTransient(code) == code \in TransientCodes

\* a wrapper that gives up one attempt early
MayRetryOneLess(attempt) == attempt < max_attempts - 2

MayRetry(attempt) == attempt < max_attempts - 1

\* w: the wrapper's locals; o: what func does when called in this iteration
WrapperStep(w, o) ==
  IF w.attempt >= max_attempts
  THEN \* the loop ran out: raise RuntimeError
       [w EXCEPT !.status = "raised",
                 !.exc = [type |-> "RuntimeError", code |-> "none"]]
  ELSE LET called == [w EXCEPT !.calls = @ + 1, !.outcomes = Append(@, o)]
       IN IF o.type = "ok"
          THEN [called EXCEPT !.status = "returned"]
          ELSE IF o.type # "ClientError"
          THEN \* not caught by the wrapper
               [called EXCEPT !.status = "raised", !.exc = o]
          ELSE IF IsPermanent(o.code)
          THEN [called EXCEPT !.status = "raised", !.exc = o]
          ELSE IF IsTransient(o.code) /\ MayRetry(w.attempt)
          THEN [called EXCEPT !.slept = Append(@, SleepTime(w.attempt)),
                              !.attempt = @ + 1]
          ELSE [called EXCEPT !.status = "raised", !.exc = o]

\* the whole wrapper call, func behaving as the script says, call by call
RunWrapper(w0, script) ==
  LET after[i \in 0..Len(script)] ==
        IF i = 0 THEN w0
        ELSE IF after[i - 1].status # "running" THEN after[i - 1]
        ELSE WrapperStep(after[i - 1], script[i])
  IN after[Len(script)]


(***************************************************************************)
(* questions.py: the validators, computed as the code computes them.       *)
(* A question is a record with question_text and module_source.            *)
(***************************************************************************)
validate_question_mix(mc_questions, oe_questions) ==
  Len(mc_questions) = NumMC /\ Len(oe_questions) = NumOE

\* the two loops of validate_unique_questions share one set of seen texts
RECURSIVE UniqueFrom(_, _)
UniqueFrom(qs, question_texts) ==
  IF qs = <<>> THEN TRUE
  ELSE IF Lower(Head(qs).question_text) \in question_texts THEN FALSE
  ELSE UniqueFrom(Tail(qs), question_texts \cup {Lower(Head(qs).question_text)})

validate_unique_questions(mc_questions, oe_questions) ==
  UniqueFrom(mc_questions \o oe_questions, {})

ModuleSet(mc_questions, oe_questions) ==
  {mc_questions[i].module_source : i \in 1..Len(mc_questions)}
    \cup {oe_questions[i].module_source : i \in 1..Len(oe_questions)}

get_modules_covered(mc_questions, oe_questions) ==
  SortedList(ModuleSet(mc_questions, oe_questions))

MixError(mc_questions, oe_questions) ==
  IF validate_question_mix(mc_questions, oe_questions) THEN <<>> ELSE <<"mix">>

\* a diversity check that asks for more than 5 modules
DiversityErrorStrict(modules) ==
  IF Len(modules) <= MinModules THEN <<"diversity">> ELSE <<>>

DiversityError(modules) ==
  IF Len(modules) < MinModules THEN <<"diversity">> ELSE <<>>

LevelError(level) ==
  IF level \in MinLevel..MaxLevel THEN <<>> ELSE <<"level">>

DuplicateWarning(mc_questions, oe_questions) ==
  IF validate_unique_questions(mc_questions, oe_questions) THEN <<>>
  ELSE <<"duplicate">>

BackgroundWarning(user_background) ==
  IF user_background = <<>> \/ Strip(user_background) = <<>>
  THEN <<"background">> ELSE <<>>

validate_assessment(level, mc_questions, oe_questions, user_background) ==
  LET modules == get_modules_covered(mc_questions, oe_questions)
      errors == MixError(mc_questions, oe_questions) \o DiversityError(modules)
                  \o LevelError(level)
      warnings == DuplicateWarning(mc_questions, oe_questions)
                    \o BackgroundWarning(user_background)
  IN [valid |-> Len(errors) = 0,
      errors |-> errors,
      warnings |-> warnings,
      modules_covered |-> modules,
      module_count |-> Len(modules),
      question_count |-> Len(mc_questions) + Len(oe_questions)]

(***************************************************************************)
(* models.py: the pydantic models.  Construction keeps the declared        *)
(* fields, ignores every other key, fills the defaults and checks the      *)
(* field constraints and validators; nothing else.  The constraints on the *)
(* length of a text are not modelled: a text stands for one long enough.   *)
(***************************************************************************)
\* JSON's null
JsonNull == [null |-> TRUE]

\* the fields declared Optional
OptionalFields == {"metadata", "background_profile_used"}

\* Model(**q): the declared fields of q, and the default of each one absent
BuildModel(q, fields, defaults) ==
  [f \in (DOMAIN q \cap fields) \cup DOMAIN defaults |->
     IF f \in DOMAIN q THEN q[f] ELSE defaults[f]]

MCFields ==
  {"type", "question_text", "options", "correct_answer_index",
   "explanation", "module_source", "difficulty"}

MCRequired ==
  {"question_text", "options", "correct_answer_index", "explanation",
   "module_source"}

MCDefaults == [type |-> "multiple_choice", difficulty |-> "intermediate"]

MultipleChoiceQuestion(q) ==
  IF \/ ~(MCRequired \subseteq DOMAIN q)
     \/ Len(q.options) # NumOptions
     \/ ~(q.correct_answer_index >= 0 /\ q.correct_answer_index <= NumOptions - 1)
  THEN [raised |-> "ValidationError", value |-> None]
  ELSE [raised |-> "none", value |-> BuildModel(q, MCFields, MCDefaults)]

OEFields ==
  {"type", "question_text", "expected_key_points", "evaluation_criteria",
   "module_source", "difficulty"}

OERequired ==
  {"question_text", "expected_key_points", "evaluation_criteria",
   "module_source"}

OEDefaults == [type |-> "open_ended", difficulty |-> "intermediate"]

OpenEndedQuestion(q) ==
  IF \/ ~(OERequired \subseteq DOMAIN q)
     \/ Len(q.expected_key_points) < MinKeyPoints
     \/ Len(q.expected_key_points) > MaxKeyPoints
  THEN [raised |-> "ValidationError", value |-> None]
  ELSE [raised |-> "none", value |-> BuildModel(q, OEFields, OEDefaults)]

MetadataFields ==
  {"generation_time_seconds", "kb_query_count", "modules_queried",
   "difficulty_distribution", "background_profile_used"}

MetadataDefaults == [background_profile_used |-> None]

AssessmentMetadata(m) == BuildModel(m, MetadataFields, MetadataDefaults)

AssessmentFields ==
  {"assessment_id", "level", "multiple_choice_questions",
   "open_ended_questions", "generated_at", "user_background",
   "modules_covered", "metadata"}

\* assessment_id and generated_at have default factories: see Load
AssessmentDefaults == [metadata |-> None]

\* a UUID field takes a UUID or the text of one
UUID(v) == IF "str" \in DOMAIN v THEN [uuid |-> v.str] ELSE v

\* the questions of d that their own models reject
QuestionErrors(d) ==
  {i \in 1..Len(d.multiple_choice_questions) :
     MultipleChoiceQuestion(d.multiple_choice_questions[i]).raised # "none"}
  \cup
  {NumMC + i : i \in
     {k \in 1..Len(d.open_ended_questions) :
        OpenEndedQuestion(d.open_ended_questions[k]).raised # "none"}}

\* the field values of the object built from d
AssessmentValue(d) ==
  LET kept == BuildModel(d, AssessmentFields, AssessmentDefaults)
  IN [f \in DOMAIN kept |->
        IF f = "multiple_choice_questions"
        THEN [i \in 1..Len(kept[f]) |-> MultipleChoiceQuestion(kept[f][i]).value]
        ELSE IF f = "open_ended_questions"
        THEN [i \in 1..Len(kept[f]) |-> OpenEndedQuestion(kept[f][i]).value]
        ELSE IF f = "assessment_id" THEN UUID(kept[f])
        ELSE IF f = "metadata" /\ kept[f] # None
        THEN AssessmentMetadata(kept[f])
        ELSE kept[f]]

AssessmentFieldErrors(d) ==
  {f \in {"level", "multiple_choice_questions", "open_ended_questions",
          "modules_covered"} :
     \/ f = "level" /\ ~(d.level >= MinLevel /\ d.level <= MaxLevel)
     \/ f = "multiple_choice_questions"
          /\ Len(d.multiple_choice_questions) # NumMC
     \/ f = "open_ended_questions" /\ Len(d.open_ended_questions) # NumOE
     \/ f = "modules_covered"
          /\ (\/ Len(d.modules_covered) < MinModules
              \/ Cardinality(SeqToSet(d.modules_covered)) < MinModules)}

\* Assessment(**d): the object, or the ValidationError pydantic raises
Assessment(d) ==
  IF AssessmentFieldErrors(d) = {} /\ QuestionErrors(d) = {}
  THEN [raised |-> "none", value |-> AssessmentValue(d)]
  ELSE [raised |-> "ValidationError", value |-> None]

\* a constructor that cuts the lists down to the contract instead of failing
create_assessment_truncating(level, mc_questions, oe_questions, user_background) ==
  LET cut_mc == [i \in 1..(IF Len(mc_questions) < NumMC THEN Len(mc_questions)
                           ELSE NumMC) |-> mc_questions[i]]
      cut_oe == [i \in 1..(IF Len(oe_questions) < NumOE THEN Len(oe_questions)
                           ELSE NumOE) |-> oe_questions[i]]
  IN Assessment([level |-> level,
                 multiple_choice_questions |-> cut_mc,
                 open_ended_questions |-> cut_oe,
                 user_background |-> user_background,
                 modules_covered |-> get_modules_covered(cut_mc, cut_oe)])

create_assessment_from_questions(level, mc_questions, oe_questions, user_background) ==
  LET validation ==
        validate_assessment(level, mc_questions, oe_questions, user_background)
      d == [level |-> level,
            multiple_choice_questions |-> mc_questions,
            open_ended_questions |-> oe_questions,
            user_background |-> user_background,
            modules_covered |-> validation.modules_covered]
  IN IF ~validation.valid
     THEN [raised |-> "ValueError", value |-> None]
     ELSE Assessment(d)

(***************************************************************************)
(* s3_uploader.py: keys, locators and one store operation.                 *)
(***************************************************************************)
\* timestamp.strftime('%Y%m%d_%H%M%S'): the second the tick falls in
strftime(timestamp) == timestamp \div TicksPerSecond

\* a key that ends in the name of the format
ExtIsFormat(file_format) == file_format

Ext(file_format) == IF file_format = "json" THEN "json" ELSE "md"

\* f"{prefix}/level_{level}/level_{level}_{ts_str}.{ext}", part by part
_generate_s3_key(level, timestamp, file_format) ==
  [prefix |-> S3_PREFIX, dir_level |-> level, file_level |-> level,
   ts_str |-> strftime(timestamp), ext |-> Ext(file_format)]

_format_s3_uri(key) == [bucket |-> S3_BUCKET_NAME, key |-> key]

\* every way put_object can behave over the calls of one wrapper run, as the
\* finished wrapper leaves it
Scripts == UNION {[1..n -> Outcomes] : n \in 1..max_attempts}

WrapperResults ==
  {RunWrapper(NewWrapper, s) : s \in Scripts}

UploadResults ==
  {[put |-> r.status = "returned", exc |-> r.exc] :
     r \in {x \in WrapperResults : x.status # "running"}}

\* a store operation that returns the locator whether or not the write
\* ended well
upload_assessment_unchecked(assessment, file_format, timestamp, put) ==
  LET key == _generate_s3_key(assessment.level, timestamp, file_format)
  IN [key |-> key, put |-> put, returned |-> TRUE,
      s3_uri |-> _format_s3_uri(key)]

\* upload_assessment(assessment, file_format, timestamp): the key written
\* and the locator returned when the wrapped put_object ends well (put), the
\* key left unwritten when it raises
upload_assessment(assessment, file_format, timestamp, put) ==
  LET key == _generate_s3_key(assessment.level, timestamp, file_format)
  IN [key |-> key, put |-> put, returned |-> put,
      s3_uri |-> _format_s3_uri(key)]

(***************************************************************************)
(* Inputs: question lists and assessment documents.                        *)
(***************************************************************************)
MkText(base, i) == <<base, 64 + i>>

\* n multiple choice questions over m modules; dup says which question, if
\* any, repeats the text of the first one
MkMC(n, m, dup) ==
  [i \in 1..n |->
     [question_text |->
        IF i = 2 /\ dup = "exact" THEN MkText(81, 1)
        ELSE IF i = 2 /\ dup = "case" THEN Lower(MkText(81, 1))
        ELSE MkText(81, i),
      module_source |-> ((i - 1) % m) + 1,
      type |-> "multiple_choice",
      options |-> [j \in 1..NumOptions |-> MkText(64 + j, i)],
      correct_answer_index |-> (i - 1) % NumOptions,
      explanation |-> MkText(88, i),
      difficulty |-> IF i = 1 THEN "beginner" ELSE "intermediate"]]

MkOE(n, m, dup, offset) ==
  [i \in 1..n |->
     [question_text |->
        IF i = 1 /\ dup = "cross" THEN Lower(MkText(81, 1))
        ELSE MkText(79, i),
      module_source |-> ((offset + i - 1) % m) + 1,
      type |-> "open_ended",
      expected_key_points |-> [j \in 1..MinKeyPoints |-> MkText(75, j)],
      evaluation_criteria |-> MkText(67, i),
      difficulty |-> "intermediate"]]

Background == <<100, 101, 118>>

\* an assessment as the generator writes it: modules_covered is its own list
MkDoc(level, nmc, ncov) ==
  [level |-> level,
   multiple_choice_questions |-> MkMC(nmc, MinModules, "none"),
   open_ended_questions |-> MkOE(NumOE, MinModules, "none", nmc),
   user_background |-> Background,
   modules_covered |-> SortedList(1..ncov)]

Malformed == [wellformed |-> FALSE, doc |-> <<>>]

ToolLevels == {1, 2}

ToolJsons ==
  {Malformed} \cup
  {[wellformed |-> TRUE, doc |-> MkDoc(l, nmc, ncov)] :
     l \in {0} \cup ToolLevels, nmc \in {NumMC - 1, NumMC},
     ncov \in {MinModules - 1, MinModules}}

\* a JSON object as a dict: null becomes None, one level down as well
FromJson(doc) ==
  [f \in DOMAIN doc |->
     IF f \in OptionalFields
     THEN IF doc[f] = JsonNull THEN None
          ELSE [g \in DOMAIN doc[f] |->
                  IF g \in OptionalFields /\ doc[f][g] = JsonNull THEN None
                  ELSE doc[f][g]]
     ELSE doc[f]]

\* json.loads: the document of a well-formed text, JSONDecodeError otherwise
json_loads(j) ==
  IF j.wellformed THEN [raised |-> "none", value |-> FromJson(j.doc)]
  ELSE [raised |-> "JSONDecodeError", value |-> <<>>]

(***************************************************************************)
(* State.                                                                  *)
(***************************************************************************)
envVars == <<clock, store>>

toolVars ==
  <<pc, level_arg, tool_assessment, tool_timestamp, s3_uri_json, result,
    raised, written, ncalls>>

batchVars == <<bpc, assessments, formats, btimestamp, tasks, results>>

validateVars == <<vpc, vin, vresult, created>>

documentVars ==
  <<dpc, gen_json, built_obj, content_json, content_markdown, reloaded>>

parseVars == <<ppc, ptext, profile>>

kbVars ==
  <<kpc, klevel, ktarget, koverview, kmodules, kqueries, kcontent, kexc>>

multiVars == <<mpc, mlevels, mdone, mresult>>

vars == <<clock, store, wrapper, pc, level_arg, tool_assessment,
          tool_timestamp, s3_uri_json, result, raised, written, ncalls, bpc,
          assessments, formats, btimestamp, tasks, results, vpc, vin,
          vresult, created, dpc, gen_json, built_obj, content_json,
          content_markdown, reloaded, ppc, ptext, profile, kpc, klevel,
          ktarget, koverview, kmodules, kqueries, kcontent, kexc, mpc,
          mlevels, mdone, mresult>>

EmptyDict == [k \in {} |-> <<>>]

EmptyRecord == [k \in {} |-> <<>>]

InitEnv == clock = 0 /\ store = EmptyBag

IdleRetry == wrapper = NewWrapper

IdleTool ==
  /\ pc = "idle"
  /\ level_arg = 0
  /\ tool_assessment = None
  /\ tool_timestamp = 0
  /\ s3_uri_json = None
  /\ result = None
  /\ raised = NoExc
  /\ written = {}
  /\ ncalls = 0

IdleBatch ==
  /\ bpc = "idle"
  /\ assessments = <<>>
  /\ formats = <<>>
  /\ btimestamp = 0
  /\ tasks = <<>>
  /\ results = EmptyDict

IdleValidate ==
  /\ vpc = "idle"
  /\ vin = None
  /\ vresult = None
  /\ created = None

IdleDocument ==
  /\ dpc = "idle"
  /\ gen_json = None
  /\ built_obj = None
  /\ content_json = None
  /\ content_markdown = None
  /\ reloaded = None

IdleParse ==
  /\ ppc = "idle"
  /\ ptext = <<>>
  /\ profile = None

IdleKb ==
  /\ kpc = "idle"
  /\ klevel = 0
  /\ ktarget = 0
  /\ koverview = <<>>
  /\ kmodules = <<>>
  /\ kqueries = <<>>
  /\ kcontent = EmptyDict
  /\ kexc = NoExc

IdleMulti ==
  /\ mpc = "idle"
  /\ mlevels = <<>>
  /\ mdone = <<>>
  /\ mresult = None

(***************************************************************************)
(* _upload_with_retry, iteration by iteration.                             *)
(***************************************************************************)
\* one iteration of the wrapper's loop, put_object doing o
Attempt(o) ==
  /\ wrapper.status = "running"
  /\ wrapper' = WrapperStep(wrapper, o)
  /\ UNCHANGED <<envVars, toolVars, batchVars, validateVars, documentVars, parseVars, kbVars, multiVars>>

NextRetry == \E o \in Outcomes : Attempt(o)

InitRetry ==
  /\ InitEnv /\ IdleRetry /\ IdleTool /\ IdleBatch /\ IdleValidate
  /\ IdleDocument /\ IdleParse /\ IdleKb /\ IdleMulti

SpecRetry == InitRetry /\ [][NextRetry]_vars

(***************************************************************************)
(* Properties of the retry wrapper.                                        *)
(***************************************************************************)
\* the four codes the retry contract names as transient
FourTransientCodes ==
  {"Throttling", "ServiceUnavailable", "RequestTimeout", "RequestTimeTooSkewed"}

TransientFailure(o) == o.type = "ClientError" /\ o.code \in FourTransientCodes

\* the calls made so far all failed with a transient code
AllTransient(outs) == \A i \in 1..Len(outs) : TransientFailure(outs[i])

\* outs without its last element
Earlier(outs) == SubSeq(outs, 1, Len(outs) - 1)

\* C1: put_object is called at most 3 times; after k <= 2 transient
\* failures the wrapper calls again, and when that call succeeds the wrapper
\* returns, having made exactly k + 1 calls.
C1_RetryThenSucceed ==
  LET outs == wrapper.outcomes
      k == Len(outs) - 1
  IN /\ wrapper.calls = Len(outs)
     /\ wrapper.calls <= 3
     /\ (AllTransient(outs) /\ Len(outs) <= 2) => wrapper.status = "running"
     /\ (outs # <<>> /\ outs[Len(outs)] = Ok /\ AllTransient(Earlier(outs)))
          => /\ wrapper.status = "returned"
             /\ wrapper.calls = k + 1
             /\ k <= 2
             /\ wrapper.exc = NoExc

\* success on the third call, after two transient failures
C1_Witness ==
  /\ wrapper.status = "returned"
  /\ wrapper.calls = 3
  /\ Len(wrapper.slept) = 2
  /\ AllTransient(Earlier(wrapper.outcomes))

\* C2: a failure whose code is not one of the four transient codes (a
\* permanent code, any other code, or no ClientError at all) is re-raised
\* as it is, with no sleep after it and no further call: the wrapper has
\* slept only once per earlier transient failure, and not at all when the
\* failure is the first call's.
C2_OnlyTransientRetried ==
  LET outs == wrapper.outcomes
      n == Len(outs)
  IN /\ (n > 0 /\ outs[n] # Ok /\ ~TransientFailure(outs[n]))
          => /\ wrapper.status = "raised"
             /\ wrapper.exc = outs[n]
             /\ wrapper.calls = n
             /\ Len(wrapper.slept) = n - 1
     /\ wrapper.status = "running" => AllTransient(outs)
     /\ Len(wrapper.slept) <= Cardinality({i \in 1..n : TransientFailure(outs[i])})
     /\ wrapper.status # "running" => AllTransient(Earlier(outs))

\* a code outside both lists, raised on the second call after one retry
C2_Witness ==
  /\ wrapper.status = "raised"
  /\ wrapper.exc = [type |-> "ClientError", code |-> "InternalError"]
  /\ wrapper.calls = 2
  /\ wrapper.slept = <<1>>

\* C3: when all 3 attempts fail with transient errors, what the wrapper
\* raises is the RuntimeError of retries exhausted, not a ClientError.
C3_ExhaustedIsRuntimeError ==
  (/\ wrapper.status = "raised"
   /\ wrapper.calls = 3
   /\ AllTransient(wrapper.outcomes))
    => wrapper.exc.type = "RuntimeError"

\* three transient failures in a row have been raised out of the wrapper
C3_Witness ==
  /\ wrapper.status = "raised"
  /\ wrapper.calls = 3
  /\ AllTransient(wrapper.outcomes)

\* C25: with max_attempts = 3 and the schedule 1s, 2s, 4s the delays slept
\* are taken from the schedule in order, one per failed attempt that is
\* retried (1s before the second attempt, 2s before the third); no delay
\* is slept after the final attempt or before an error that is not retried
\* is raised.
C25_DelaysFollowSchedule ==
  LET n == Len(wrapper.slept)
      outs == wrapper.outcomes
  IN /\ wrapper.slept = SubSeq(<<1, 2, 4>>, 1, n)
     /\ n <= 2
     /\ wrapper.status = "running" => n = Len(outs)
     /\ wrapper.status # "running" => n = Len(outs) - 1
     /\ \A i \in 1..n : TransientFailure(outs[i])

\* the third attempt failed as well: 1s and 2s were slept, and no more
C25_Witness ==
  /\ wrapper.status = "raised"
  /\ Len(wrapper.outcomes) = 3
  /\ wrapper.slept = <<1, 2>>
  /\ TransientFailure(wrapper.outcomes[3])

(***************************************************************************)
(* The store operations share the clock and the bucket.  Time is read once *)
(* by a batch, so it is not followed once a batch has started.             *)
(***************************************************************************)
Tick ==
  /\ clock < MaxClock
  /\ bpc = "idle"
  /\ clock' = clock + 1
  /\ UNCHANGED <<store, wrapper, toolVars, batchVars, validateVars, documentVars, parseVars, kbVars, multiVars>>

(***************************************************************************)
(* upload_assessment_to_s3, the tool the level workers call.               *)
(***************************************************************************)
ErrorResult(error_msg, level) ==
  [status |-> "error", error |-> error_msg, level |-> level]

SuccessResult(uri_json, uri_markdown, level, ts) ==
  [status |-> "success", s3_uri_json |-> uri_json,
   s3_uri_markdown |-> uri_markdown, level |-> level, timestamp |-> ts,
   bucket |-> S3_BUCKET_NAME, prefix |-> S3_PREFIX]

\* a tool whose only except clause is the one for JSONDecodeError: any
\* other exception leaves the tool
HandleJsonErrorOnly(e, level) ==
  IF e.type = "JSONDecodeError" THEN ErrorResult("Invalid JSON format", level)
  ELSE [status |-> "raised", error |-> e.type, level |-> level]

\* lines 383-399: except json.JSONDecodeError, then except Exception
HandleException(e, level) ==
  IF e.type = "JSONDecodeError" THEN ErrorResult("Invalid JSON format", level)
  ELSE ErrorResult("S3 upload failed", level)

\* lines 358-367: parse, build the Assessment, take the timestamp
ToolCall(j, level) ==
  /\ pc = "idle"
  /\ bpc = "idle"
  /\ ncalls < MaxToolCalls
  /\ ncalls' = ncalls + 1
  /\ level_arg' = level
  /\ written' = {}
  /\ s3_uri_json' = None
  /\ LET parsed == json_loads(j)
         built == Assessment(parsed.value)
     IN IF parsed.raised # "none"
        THEN /\ result' = HandleException([type |-> parsed.raised,
                                            code |-> "none"], level)
             /\ raised' = [type |-> parsed.raised, code |-> "none"]
             /\ pc' = "done"
             /\ UNCHANGED <<tool_assessment, tool_timestamp>>
        ELSE IF built.raised # "none"
        THEN /\ result' = HandleException([type |-> built.raised,
                                            code |-> "none"], level)
             /\ raised' = [type |-> built.raised, code |-> "none"]
             /\ pc' = "done"
             /\ UNCHANGED <<tool_assessment, tool_timestamp>>
        ELSE /\ tool_assessment' = built.value
             /\ tool_timestamp' = clock
             /\ result' = None
             /\ raised' = NoExc
             /\ pc' = "json"
  /\ UNCHANGED <<envVars, wrapper, batchVars, validateVars, documentVars, parseVars, kbVars, multiVars>>

\* line 368: the JSON upload, put_object and its retries ending as r
UploadJson(r) ==
  /\ pc = "json"
  /\ LET up == upload_assessment(tool_assessment, "json", tool_timestamp,
                                 r.put)
     IN /\ store' = IF up.put THEN store (+) SetToBag({up.key}) ELSE store
        /\ written' = IF up.put THEN written \cup {up.key} ELSE written
        /\ IF up.returned
           THEN /\ s3_uri_json' = up.s3_uri
                /\ pc' = "markdown"
                /\ UNCHANGED <<result, raised>>
           ELSE /\ result' = HandleException(r.exc, level_arg)
                /\ raised' = r.exc
                /\ pc' = "done"
                /\ UNCHANGED s3_uri_json
  /\ UNCHANGED <<clock, wrapper, level_arg, tool_assessment, tool_timestamp,
                 ncalls, batchVars, validateVars, documentVars, parseVars, kbVars, multiVars>>

\* lines 369-381: the markdown upload, then the success dict
UploadMarkdown(r) ==
  /\ pc = "markdown"
  /\ LET up == upload_assessment(tool_assessment, "markdown", tool_timestamp,
                                 r.put)
     IN /\ store' = IF up.put THEN store (+) SetToBag({up.key}) ELSE store
        /\ written' = IF up.put THEN written \cup {up.key} ELSE written
        /\ IF up.returned
           THEN /\ result' = SuccessResult(s3_uri_json, up.s3_uri, level_arg,
                                           tool_timestamp)
                /\ UNCHANGED raised
           ELSE /\ result' = HandleException(r.exc, level_arg)
                /\ raised' = r.exc
  /\ pc' = "done"
  /\ UNCHANGED <<clock, wrapper, level_arg, tool_assessment, tool_timestamp,
                 s3_uri_json, ncalls, batchVars, validateVars, documentVars, parseVars, kbVars, multiVars>>

\* the dict reaches the caller
ToolReturn ==
  /\ pc = "done"
  /\ pc' = "idle"
  /\ UNCHANGED <<envVars, wrapper, level_arg, tool_assessment,
                 tool_timestamp, s3_uri_json, result, raised, written, ncalls,
                 batchVars, validateVars, documentVars, parseVars, kbVars, multiVars>>

(***************************************************************************)
(* upload_multiple_assessments: a pool of max_workers threads, one future  *)
(* per (assessment, format), collected as they complete.                   *)
(***************************************************************************)
DefaultFormats == <<"json", "markdown">>

FormatLists == {DefaultFormats, <<"json">>}

\* an Assessment object of the given level
MkAssessment(level) == Assessment(MkDoc(level, NumMC, MinModules)).value

\* the levels of a batch: 1, 2, 3, 4, 1, ... or, with repeat, 1, 1, 2, ...
BatchLevel(i, repeat) ==
  LET k == IF repeat /\ i > 1 THEN i - 1 ELSE i
  IN ((k - 1) % MaxLevel) + 1

BatchInputs ==
  {in \in {<<[i \in 1..n |-> MkAssessment(BatchLevel(i, repeat))], fs>> :
             n \in 1..MaxTasks, repeat \in BOOLEAN, fs \in FormatLists} :
     Len(in[1]) * Len(in[2]) <= MaxTasks}

\* how upload_assessment can end in a pool thread: it returned or it raised
PutResults == {r.put : r \in UploadResults}

NumTasks == Len(assessments) * Len(formats)

\* the n-th future the nested loops of lines 291-299 submit
TaskOf(n) ==
  LET a == ((n - 1) \div Len(formats)) + 1
      f == ((n - 1) % Len(formats)) + 1
  IN [a |-> a, level |-> assessments[a].level, fmt |-> formats[f],
      status |-> "queued", collected |-> FALSE, s3_uri |-> None]

Running == {t \in 1..Len(tasks) : tasks[t].status = "running"}

Queued == {t \in 1..Len(tasks) : tasks[t].status = "queued"}

Finished == {t \in 1..Len(tasks) : tasks[t].status \in {"ok", "failed"}}

Failed == {t \in 1..Len(tasks) : tasks[t].status = "failed"}

\* a pool without a limit
WorkerAlwaysFree == TRUE

\* a worker thread is free to take a work item
WorkerFree == Cardinality(Running) < max_workers

\* an accumulation that stores the locator in place of the list
AppendResultOverwrite(res, key, s3_uri) ==
  IF key \in DOMAIN res THEN [res EXCEPT ![key] = <<s3_uri>>]
  ELSE res @@ (key :> <<s3_uri>>)

\* results[key].append(s3_uri), creating the list first
AppendResult(res, key, s3_uri) ==
  IF key \in DOMAIN res THEN [res EXCEPT ![key] = Append(@, s3_uri)]
  ELSE res @@ (key :> <<s3_uri>>)

\* a collection loop without the except clause
CollectResultUncaught(res, task) ==
  IF task.status = "ok"
  THEN [results |-> AppendResult(res, task.level, task.s3_uri),
        propagated |-> FALSE]
  ELSE [results |-> res, propagated |-> TRUE]

\* lines 303-313 for one completed future: future.result() is the locator
\* or raises what the upload raised, and the except clause keeps it in
CollectResult(res, task) ==
  IF task.status = "ok"
  THEN [results |-> AppendResult(res, task.level, task.s3_uri),
        propagated |-> FALSE]
  ELSE [results |-> res, propagated |-> FALSE]

\* lines 281-288; a batch is started at the first or at the last instant
\* of the clock, before any call of the tool
BatchCall(in) ==
  /\ bpc = "idle"
  /\ pc = "idle"
  /\ ncalls = 0
  /\ clock \in {0, MaxClock}
  /\ assessments' = in[1]
  /\ formats' = in[2]
  /\ btimestamp' = clock
  /\ tasks' = <<>>
  /\ results' = EmptyDict
  /\ bpc' = "submit"
  /\ UNCHANGED <<envVars, wrapper, toolVars, validateVars, documentVars, parseVars, kbVars, multiVars>>

\* executor.submit of the next (assessment, format)
Submit ==
  /\ bpc = "submit"
  /\ Len(tasks) < NumTasks
  /\ tasks' = Append(tasks, TaskOf(Len(tasks) + 1))
  /\ bpc' = IF Len(tasks) + 1 = NumTasks THEN "collect" ELSE "submit"
  /\ UNCHANGED <<envVars, wrapper, toolVars, validateVars, documentVars, parseVars, kbVars, multiVars, assessments,
                 formats, btimestamp, results>>

\* a pool thread takes the oldest work item of the queue
Start(t) ==
  /\ t \in Queued
  /\ \A u \in Queued : t <= u
  /\ WorkerFree
  /\ tasks' = [tasks EXCEPT ![t].status = "running"]
  /\ UNCHANGED <<envVars, wrapper, toolVars, validateVars, documentVars, parseVars, kbVars, multiVars, bpc, assessments,
                 formats, btimestamp, results>>

\* upload_assessment ends in the pool thread
Finish(t, put) ==
  /\ t \in Running
  /\ put \/ Cardinality(Failed) < MaxFail
  /\ LET up == upload_assessment(assessments[tasks[t].a], tasks[t].fmt,
                                 btimestamp, put)
     IN /\ store' = IF up.put THEN store (+) SetToBag({up.key}) ELSE store
        /\ tasks' = IF up.returned
                    THEN [tasks EXCEPT ![t].status = "ok",
                                       ![t].s3_uri = up.s3_uri]
                    ELSE [tasks EXCEPT ![t].status = "failed"]
  /\ UNCHANGED <<clock, wrapper, toolVars, validateVars, documentVars, parseVars, kbVars, multiVars, bpc, assessments,
                 formats, btimestamp, results>>

\* as_completed yields a finished future
Collect(t) ==
  /\ bpc = "collect"
  /\ t \in Finished
  /\ ~tasks[t].collected
  /\ LET c == CollectResult(results, tasks[t])
     IN /\ results' = c.results
        /\ bpc' = IF c.propagated THEN "raised" ELSE bpc
  /\ tasks' = [tasks EXCEPT ![t].collected = TRUE]
  /\ UNCHANGED <<envVars, wrapper, toolVars, validateVars, documentVars, parseVars, kbVars, multiVars, assessments,
                 formats, btimestamp>>

\* line 315
BatchReturn ==
  /\ bpc = "collect"
  /\ \A t \in 1..Len(tasks) : tasks[t].collected
  /\ bpc' = "returned"
  /\ UNCHANGED <<envVars, wrapper, toolVars, validateVars, documentVars, parseVars, kbVars, multiVars, assessments,
                 formats, btimestamp, tasks, results>>

Next ==
  \/ Tick
  \/ \E j \in ToolJsons, level \in ToolLevels : ToolCall(j, level)
  \/ \E r \in UploadResults : UploadJson(r)
  \/ \E r \in UploadResults : UploadMarkdown(r)
  \/ ToolReturn
  \/ \E in \in BatchInputs : BatchCall(in)
  \/ Submit
  \/ \E t \in 1..Len(tasks) : Start(t)
  \/ \E t \in 1..Len(tasks), put \in PutResults : Finish(t, put)
  \/ \E t \in 1..Len(tasks) : Collect(t)
  \/ BatchReturn

Init ==
  /\ InitEnv /\ IdleRetry /\ IdleTool /\ IdleBatch /\ IdleValidate
  /\ IdleDocument /\ IdleParse /\ IdleKb /\ IdleMulti

Spec == Init /\ [][Next]_vars

(***************************************************************************)
(* Properties of the tool and of the batch.                                *)
(***************************************************************************)
JsonWritten == \E k \in written : k.ext = "json"

MarkdownWritten == \E k \in written : k.ext = "md"

\* C4: the tool answers 'success' only if both the JSON and the markdown
\* write succeeded, and then carries the locators of the two objects
\* written; if either write failed the answer is 'error' and carries no
\* locator.
C4_SuccessOnlyIfBothWritten ==
  pc = "done" =>
    /\ result.status \in {"success", "error"}
    /\ result.status = "success" =>
         /\ JsonWritten /\ MarkdownWritten
         /\ result.s3_uri_json.key \in written
         /\ result.s3_uri_json.key.ext = "json"
         /\ result.s3_uri_markdown.key \in written
         /\ result.s3_uri_markdown.key.ext = "md"
    /\ ~(JsonWritten /\ MarkdownWritten) =>
         /\ result.status = "error"
         /\ DOMAIN result \cap {"s3_uri_json", "s3_uri_markdown"} = {}

\* the markdown write failed after the JSON write succeeded
C4_Witness ==
  /\ pc = "done"
  /\ JsonWritten
  /\ ~MarkdownWritten
  /\ raised.type = "ClientError"
  /\ result.status = "error"

\* the batch reports the locator of assessment a in format fmt
Reported(a, fmt) ==
  \E t \in 1..Len(tasks) :
     /\ tasks[t].a = a
     /\ tasks[t].fmt = fmt
     /\ tasks[t].level \in DOMAIN results
     /\ tasks[t].s3_uri \in SeqToSet(results[tasks[t].level])

\* C5: the mapping a batch with the default formats returns holds, for
\* every assessment, both of its locators or none of them.
C5_PairsReportedTogether ==
  (bpc = "returned" /\ formats = DefaultFormats) =>
    \A a \in 1..Len(assessments) : Reported(a, "json") <=> Reported(a, "markdown")

\* a batch returned with a write that failed
C5_Witness ==
  /\ bpc = "returned"
  /\ formats = DefaultFormats
  /\ Failed # {}

OkTasks == {t \in 1..Len(tasks) : tasks[t].status = "ok"}

\* C6: a failed write never raises out of the batch and never keeps another
\* write from being attempted: when the batch returns every submitted write
\* has run to its end, and the locator of every write that succeeded is in
\* the mapping, which holds nothing else.
C6_FailuresAreContained ==
  /\ bpc # "raised"
  /\ bpc = "returned" =>
       /\ Len(tasks) = Len(assessments) * Len(formats)
       /\ \A t \in 1..Len(tasks) : tasks[t].status \in {"ok", "failed"}
       /\ \A t \in OkTasks :
            /\ tasks[t].level \in DOMAIN results
            /\ tasks[t].s3_uri \in SeqToSet(results[tasks[t].level])
       /\ \A l \in DOMAIN results :
            Len(results[l]) = Cardinality({t \in OkTasks : tasks[t].level = l})

\* a batch returned after one write failed and others succeeded
C6_Witness ==
  /\ bpc = "returned"
  /\ Failed # {}
  /\ Cardinality(OkTasks) >= 2

\* C7: no key is written twice, so no object is overwritten.
C7_NoKeyWrittenTwice ==
  \A k \in BagToSet(store) : CopiesIn(k, store) = 1

\* two successful writes of one batch, for two assessments of one level
C7_Witness ==
  /\ bpc = "returned"
  /\ \E t, u \in OkTasks :
       /\ tasks[t].a # tasks[u].a
       /\ tasks[t].level = tasks[u].level
       /\ tasks[t].fmt = tasks[u].fmt

\* C8: at most 5 writes of a batch are in progress at any moment.
C8_AtMostFiveInProgress == Cardinality(Running) <= 5

\* five writes in progress while a sixth waits for a thread
C8_Witness ==
  /\ Cardinality(Running) = 5
  /\ Queued # {}

\* '{prefix}/level_{n}/level_{n}_{second}.{ext}'
KeyFor(n, ts, ext) ==
  [prefix |-> "learning_path/assessments", dir_level |-> n, file_level |-> n,
   ts_str |-> ts \div TicksPerSecond, ext |-> ext]

ExtFor(fmt) == IF fmt = "json" THEN "json" ELSE "md"

\* C9: the keys written for one assessment, by the tool or by a batch, are
\* '{prefix}/level_{n}/level_{n}_{second}.json' and the same string ending
\* in '.md': same prefix, same n, same second, differing in the extension
\* only.
C9_PairedKeys ==
  /\ written # {} =>
       /\ written \subseteq
            {KeyFor(tool_assessment.level, tool_timestamp, e) : e \in {"json", "md"}}
       /\ JsonWritten
  /\ (pc = "done" /\ result.status = "success") =>
       /\ result.s3_uri_json.key =
            KeyFor(tool_assessment.level, tool_timestamp, "json")
       /\ result.s3_uri_markdown.key =
            [result.s3_uri_json.key EXCEPT !.ext = "md"]
       /\ written = {result.s3_uri_json.key, result.s3_uri_markdown.key}
  /\ \A t \in OkTasks :
       tasks[t].s3_uri.key =
         KeyFor(assessments[tasks[t].a].level, btimestamp, ExtFor(tasks[t].fmt))
  /\ \A t, u \in OkTasks :
       (tasks[t].a = tasks[u].a /\ tasks[t].fmt = "json"
          /\ tasks[u].fmt = "markdown")
         => tasks[u].s3_uri.key = [tasks[t].s3_uri.key EXCEPT !.ext = "md"]
  /\ \A k \in BagToSet(store) :
       \E n \in 1..4, ts \in 0..MaxClock, e \in {"json", "md"} :
          k = KeyFor(n, ts, e)

\* the tool has written both keys of an assessment, in a second that is
\* not the first one
C9_Witness ==
  /\ pc = "done"
  /\ result.status = "success"
  /\ Cardinality(written) = 2
  /\ tool_timestamp >= TicksPerSecond

\* the locators of the writes of level l that succeeded, as a bag
OkUris(l) ==
  LET ok == {t \in OkTasks : tasks[t].level = l}
  IN [u \in {tasks[t].s3_uri : t \in ok} |->
        Cardinality({t \in ok : tasks[t].s3_uri = u})]

\* the locators listed under level l, as a bag
ListedUris(l) ==
  [u \in SeqToSet(results[l]) |->
     Cardinality({i \in 1..Len(results[l]) : results[l][i] = u})]

\* C26: for every interleaving of the concurrent writes the batch returns
\* only after every submitted write has finished, and the mapping returned
\* holds the locator of each successful write exactly once, under the key
\* of the level of its assessment: the number of locators returned is the
\* number of writes that succeeded.
C26_NoLostUpdate ==
  bpc = "returned" =>
    /\ Len(tasks) = NumTasks
    /\ Finished = 1..NumTasks
    /\ DOMAIN results = {tasks[t].level : t \in OkTasks}
    /\ \A l \in DOMAIN results : ListedUris(l) = OkUris(l)
    /\ Cardinality({<<l, i>> \in (DOMAIN results) \X (1..(MaxTasks + 1)) :
                       i <= Len(results[l])})
         = Cardinality(OkTasks)

\* a batch returned in which the markdown write of a level was collected
\* before its JSON write
C26_Witness ==
  /\ bpc = "returned"
  /\ \E l \in DOMAIN results :
       /\ Len(results[l]) >= 2
       /\ results[l][1].key.ext = "md"
       /\ results[l][2].key.ext = "json"

\* C28: upload_assessment_to_s3 never raises: malformed JSON, an
\* assessment the Assessment model rejects and any storage failure each
\* give a result with status 'error' that carries the level argument; when
\* the JSON is malformed or the assessment is rejected no write to storage
\* is attempted.
C28_ToolNeverRaises ==
  /\ pc = "done" =>
       /\ result.status \in {"success", "error"}
       /\ raised # NoExc =>
            /\ result.status = "error"
            /\ result.level = level_arg
       /\ raised.type \in {"JSONDecodeError", "ValidationError"} =>
            /\ written = {}
            /\ s3_uri_json = None
  /\ pc \in {"json", "markdown"} => raised = NoExc

\* the Assessment model rejected the document: an error result, no write
C28_Witness ==
  /\ pc = "done"
  /\ raised.type = "ValidationError"
  /\ result.status = "error"
  /\ result.level = level_arg
  /\ written = {}

\* C30: in every success result of the tool the reported level is the
\* level in the keys of the two locators returned, for every combination
\* of the level argument and the level field of the assessment JSON.
C30_LevelMatchesKeys ==
  (pc = "done" /\ result.status = "success") =>
    /\ result.s3_uri_json.key.dir_level = result.level
    /\ result.s3_uri_json.key.file_level = result.level
    /\ result.s3_uri_markdown.key.dir_level = result.level
    /\ result.s3_uri_markdown.key.file_level = result.level

\* a success whose level argument is not the level of the assessment
C30_Witness ==
  /\ pc = "done"
  /\ result.status = "success"
  /\ level_arg # tool_assessment.level

(***************************************************************************)
(* validate_assessment and create_assessment_from_questions on question    *)
(* lists of every shape: too few, too many, few modules, repeated text.    *)
(***************************************************************************)
Dups == {"none", "exact", "case", "cross"}

\* '', ' \t' and ' dev '
Backgrounds == {<<>>, <<32, 9>>, <<32, 100, 101, 118, 32>>}

ValidateInputs ==
  {[level |-> l,
    mc_questions |-> MkMC(nmc, m, dup),
    oe_questions |-> MkOE(noe, m, dup, nmc),
    user_background |-> b] :
     l \in 0..MaxLevelIn,
     nmc \in {0, NumMC - 1, NumMC, NumMC + 1},
     noe \in {0, NumOE - 1, NumOE, NumOE + 1},
     m \in 1..MaxModules,
     dup \in Dups,
     b \in Backgrounds}

\* validate_assessment(level, mc_questions, oe_questions, user_background)
Validate ==
  /\ vpc = "start"
  /\ vresult' = validate_assessment(vin.level, vin.mc_questions,
                                    vin.oe_questions, vin.user_background)
  /\ vpc' = "validated"
  /\ UNCHANGED <<envVars, wrapper, toolVars, batchVars, vin, created,
                 documentVars, parseVars, kbVars, multiVars>>

\* create_assessment_from_questions on the same arguments
Create ==
  /\ vpc = "validated"
  /\ created' = create_assessment_from_questions(
                   vin.level, vin.mc_questions, vin.oe_questions,
                   vin.user_background)
  /\ vpc' = "created"
  /\ UNCHANGED <<envVars, wrapper, toolVars, batchVars, vin, vresult,
                 documentVars, parseVars, kbVars, multiVars>>

NextValidate == Validate \/ Create

InitValidate ==
  /\ InitEnv /\ IdleRetry /\ IdleTool /\ IdleBatch /\ IdleDocument /\ IdleParse /\ IdleKb /\ IdleMulti
  /\ vpc = "start"
  /\ vin \in ValidateInputs
  /\ vresult = None
  /\ created = None

SpecValidate == InitValidate /\ [][NextValidate]_vars

(***************************************************************************)
(* Properties of validation.                                               *)
(***************************************************************************)
AllQuestions == vin.mc_questions \o vin.oe_questions

DistinctModules ==
  Cardinality({AllQuestions[i].module_source : i \in 1..Len(AllQuestions)})

\* level in {1,2,3,4}, 7 MC + 3 OE, at least 5 distinct modules
Structural ==
  /\ vin.level \in {1, 2, 3, 4}
  /\ Len(vin.mc_questions) = 7
  /\ Len(vin.oe_questions) = 3
  /\ DistinctModules >= 5

\* two of the questions have the same text, letter case aside
HasDuplicateText ==
  \E i, j \in 1..Len(AllQuestions) :
     /\ i < j
     /\ Lower(AllQuestions[i].question_text) = Lower(AllQuestions[j].question_text)

BlankBackground ==
  \A i \in 1..Len(vin.user_background) : IsSpace(vin.user_background[i])

\* C10: valid is true exactly when the level is in {1,2,3,4}, the mix is
\* 7 MC + 3 OE and the questions span at least 5 distinct modules; repeated
\* question text and an empty or blank background add a warning each, never
\* an error, and create_assessment_from_questions fails exactly when valid
\* is false.
C10_ValidIffStructural ==
  /\ vpc \in {"validated", "created"} =>
       /\ vresult.valid <=> Structural
       /\ vresult.valid <=> vresult.errors = <<>>
       /\ SeqToSet(vresult.errors) \subseteq {"mix", "diversity", "level"}
       /\ "duplicate" \in SeqToSet(vresult.warnings) <=> HasDuplicateText
       /\ "background" \in SeqToSet(vresult.warnings) <=> BlankBackground
  /\ vpc = "created" =>
       /\ created.raised = "none" <=> Structural
       /\ created.raised \in {"none", "ValueError"}

\* an assessment with a repeated question and a blank background: valid,
\* two warnings, and created
C10_Witness ==
  /\ vpc = "created"
  /\ HasDuplicateText
  /\ BlankBackground
  /\ vin.user_background # <<>>
  /\ vresult.valid
  /\ Len(vresult.warnings) = 2
  /\ created.raised = "none"

\* C11: create_assessment_from_questions returns an Assessment exactly when
\* validate_assessment reports no error for the same arguments; otherwise
\* it raises ValueError and there is no object; the object returned holds
\* the level, the background and the two question lists as they were given.
C11_CreatedIffNoErrors ==
  vpc = "created" =>
    /\ created.raised = "none" <=> vresult.errors = <<>>
    /\ created.raised = "none" =>
         /\ created.value.multiple_choice_questions = vin.mc_questions
         /\ created.value.open_ended_questions = vin.oe_questions
         /\ created.value.level = vin.level
         /\ created.value.user_background = vin.user_background
    /\ created.raised # "none" =>
         /\ created.raised = "ValueError"
         /\ created.value = None
    /\ (\/ Len(vin.mc_questions) # 7
        \/ Len(vin.oe_questions) # 3
        \/ DistinctModules < 5
        \/ vin.level \notin {1, 2, 3, 4}) => created.raised = "ValueError"

\* eight MC questions over enough modules at a good level: refused, not cut
C11_Witness ==
  /\ vpc = "created"
  /\ Len(vin.mc_questions) = 8
  /\ Len(vin.oe_questions) = 3
  /\ DistinctModules >= 5
  /\ vin.level = 2
  /\ created.raised = "ValueError"
  /\ created.value = None

\* C14: no Assessment that was constructed holds two questions, MC and OE
\* together, with the same text letter case aside: constructing one is a
\* hard failure.
C14_NoDuplicateConstructed ==
  (vpc = "created" /\ HasDuplicateText) => created.raised # "none"

\* an Assessment was constructed from lists where an OE question repeats
\* the text of an MC question in another letter case
C14_Witness ==
  /\ vpc = "created"
  /\ created.raised = "none"
  /\ \E i \in 1..Len(vin.mc_questions), j \in 1..Len(vin.oe_questions) :
       /\ vin.mc_questions[i].question_text # vin.oe_questions[j].question_text
       /\ Lower(vin.mc_questions[i].question_text)
            = Lower(vin.oe_questions[j].question_text)

(***************************************************************************)
(* The structured and the readable content of an assessment.               *)
(***************************************************************************)
\* assessment.model_dump_json(): UUID as its text, None as null, a nested
\* model as an object
ToJson(a) ==
  [f \in DOMAIN a |->
     IF f = "assessment_id" THEN [str |-> a[f].uuid]
     ELSE IF f \in OptionalFields
     THEN IF a[f] = None THEN JsonNull
          ELSE [g \in DOMAIN a[f] |->
                  IF g \in OptionalFields /\ a[f][g] = None THEN JsonNull
                  ELSE a[f][g]]
     ELSE a[f]]

model_dump_json(a) == [wellformed |-> TRUE, doc |-> ToJson(a)]

RECURSIVE Concat(_)
Concat(seqs) == IF seqs = <<>> THEN <<>> ELSE Head(seqs) \o Concat(Tail(seqs))

\* a renderer that counts the options from 1
MarkerFromOne(j, q) == j + 1 = q.correct_answer_index

\* " CORRECT" is appended to option j (from 0) of question q
Marker(j, q) == j = q.correct_answer_index

\* lines 235-245 for the i-th multiple choice question
MCSection(i, q) ==
  <<[kind |-> "question", number |-> i, qtype |-> "MC",
     difficulty |-> q.difficulty],
    [kind |-> "module", module |-> q.module_source],
    [kind |-> "text", text |-> q.question_text]>>
  \o [j \in 1..Len(q.options) |->
        [kind |-> "option", letter |-> 65 + (j - 1), option |-> q.options[j],
         marker |-> Marker(j - 1, q)]]
  \o <<[kind |-> "explanation", text |-> q.explanation], [kind |-> "rule"]>>

\* lines 250-259 for the i-th open-ended question
OESection(i, q) ==
  <<[kind |-> "question", number |-> NumMC + i, qtype |-> "OE",
     difficulty |-> q.difficulty],
    [kind |-> "module", module |-> q.module_source],
    [kind |-> "text", text |-> q.question_text],
    [kind |-> "key_points_heading"]>>
  \o [j \in 1..Len(q.expected_key_points) |->
        [kind |-> "key_point", point |-> q.expected_key_points[j]]]
  \o <<[kind |-> "criteria", text |-> q.evaluation_criteria],
      [kind |-> "rule"]>>

\* lines 262-269
MetadataBlock(assessment) ==
  IF assessment.metadata = None THEN <<>>
  ELSE <<[kind |-> "metadata_heading"],
         [kind |-> "generation_time",
          seconds |-> assessment.metadata.generation_time_seconds],
         [kind |-> "kb_queries", count |-> assessment.metadata.kb_query_count],
         [kind |-> "modules_queried",
          modules |-> assessment.metadata.modules_queried],
         [kind |-> "difficulty_distribution",
          dist |-> assessment.metadata.difficulty_distribution]>>

\* the lines of the document, each as the parts its f-string is made of
format_assessment_as_markdown(assessment) ==
  <<[kind |-> "title", level |-> assessment.level],
    [kind |-> "assessment_id", id |-> assessment.assessment_id],
    [kind |-> "generated", at |-> assessment.generated_at],
    [kind |-> "user_background", text |-> assessment.user_background],
    [kind |-> "modules_covered", modules |-> assessment.modules_covered,
     count |-> Len(assessment.modules_covered)],
    [kind |-> "rule"],
    [kind |-> "mc_heading"]>>
  \o Concat([i \in 1..Len(assessment.multiple_choice_questions) |->
               MCSection(i, assessment.multiple_choice_questions[i])])
  \o <<[kind |-> "oe_heading"]>>
  \o Concat([i \in 1..Len(assessment.open_ended_questions) |->
               OESection(i, assessment.open_ended_questions[i])])
  \o MetadataBlock(assessment)

\* _prepare_assessment_content(assessment, file_format)
_prepare_assessment_content(assessment, file_format) ==
  IF file_format = "json"
  THEN [content |-> model_dump_json(assessment),
        content_type |-> "application/json"]
  ELSE [content |-> format_assessment_as_markdown(assessment),
        content_type |-> "text/markdown"]

(***************************************************************************)
(* The documents the generator hands to upload_assessment_to_s3.           *)
(***************************************************************************)
\* the citations of question i: one source document
Sources(i) == <<[filename |-> <<76, 48 + i>>, s3_uri |-> <<115, 51, 48 + i>>]>>

\* every question carries its own kb_document_sources
Cited(qs, offset) ==
  [i \in 1..Len(qs) |-> qs[i] @@ [kb_document_sources |-> Sources(offset + i)]]

Without(q, field) == [f \in DOMAIN q \ {field} |-> q[f]]

Shapes == {"ok", "five_options", "index_4", "no_difficulty"}

\* the third question written in another shape
Shaped(qs, shape) ==
  [i \in 1..Len(qs) |->
     IF i # 3 \/ shape = "ok" THEN qs[i]
     ELSE IF shape = "five_options"
     THEN [qs[i] EXCEPT !.options = Append(@, MkText(69, i))]
     ELSE IF shape = "index_4"
     THEN [qs[i] EXCEPT !.correct_answer_index = NumOptions]
     ELSE Without(qs[i], "difficulty")]

GenMetadata ==
  [generation_time_seconds |-> 12, kb_query_count |-> 6,
   modules_queried |-> <<1, 2>>,
   difficulty_distribution |-> [beginner |-> 1, intermediate |-> 9]]

\* the optional parts of the document
Optional(has_id, meta) ==
  (IF has_id THEN [assessment_id |-> [str |-> "u0"],
                   generated_at |-> [iso |-> 0]]
   ELSE EmptyRecord)
  @@ (IF meta = "null" THEN [metadata |-> JsonNull]
      ELSE IF meta = "object" THEN [metadata |-> GenMetadata]
      ELSE EmptyRecord)

\* qm modules among the questions, modules shift+1..shift+ncov declared
GenDoc(level, qm, ncov, shift, dup, cited, shape, has_id, meta) ==
  LET mcs == Shaped(MkMC(NumMC, qm, dup), shape)
      oes == MkOE(NumOE, qm, IF dup = "case" THEN "cross" ELSE dup, NumMC)
  IN [level |-> level,
      multiple_choice_questions |-> IF cited THEN Cited(mcs, 0) ELSE mcs,
      open_ended_questions |-> IF cited THEN Cited(oes, NumMC) ELSE oes,
      user_background |-> Background,
      modules_covered |-> [i \in 1..ncov |-> shift + i]]
     @@ Optional(has_id, meta)

GenJsons ==
  {Malformed} \cup
  {[wellformed |-> TRUE,
    doc |-> GenDoc(l, qm, ncov, shift, dup, cited, shape, has_id, meta)] :
     l \in {MinLevel, MaxLevelIn},
     qm \in {MinModules - 2, MinModules, MaxModules},
     ncov \in {MinModules - 1, MinModules, MinModules + 1},
     shift \in {0, 2},
     dup \in {"none", "case"},
     cited \in BOOLEAN,
     shape \in Shapes,
     has_id \in BOOLEAN,
     meta \in {"absent", "null", "object"}}

\* uuid4() gives one of these
FreshIds == {"u1", "u2"}

\* a model that draws a new id and time at every construction
WithFreshIdAlways(d, id, now) ==
  [assessment_id |-> [uuid |-> id], generated_at |-> [iso |-> now]] @@ d

\* the default factories of assessment_id and generated_at
WithFactoryDefaults(d, id, now) ==
  d @@ [assessment_id |-> [uuid |-> id], generated_at |-> [iso |-> now]]

\* json.loads and Assessment(**dict), as the tool decodes
Decode(j, id, now) ==
  LET parsed == json_loads(j)
  IN IF parsed.raised # "none" THEN [raised |-> parsed.raised, value |-> None]
     ELSE Assessment(WithFactoryDefaults(parsed.value, id, now))

\* lines 360-361
Load(id) ==
  /\ dpc = "start"
  /\ LET got == Decode(gen_json, id, clock)
     IN /\ built_obj' = got
        /\ dpc' = IF got.raised = "none" THEN "built" ELSE "failed"
  /\ UNCHANGED <<envVars, wrapper, toolVars, batchVars, validateVars,
                 parseVars, kbVars, multiVars, gen_json, content_json, content_markdown,
                 reloaded>>

\* the content of the JSON upload
Dump ==
  /\ dpc = "built"
  /\ content_json' = _prepare_assessment_content(built_obj.value, "json").content
  /\ dpc' = "dumped"
  /\ UNCHANGED <<envVars, wrapper, toolVars, batchVars, validateVars,
                 parseVars, kbVars, multiVars, gen_json, built_obj, content_markdown, reloaded>>

\* the content of the markdown upload
Render ==
  /\ dpc = "dumped"
  /\ content_markdown' =
       _prepare_assessment_content(built_obj.value, "markdown").content
  /\ dpc' = "rendered"
  /\ UNCHANGED <<envVars, wrapper, toolVars, batchVars, validateVars,
                 parseVars, kbVars, multiVars, gen_json, built_obj, content_json, reloaded>>

\* a reader decodes the stored JSON the way the tool decodes
Reload(id) ==
  /\ dpc = "rendered"
  /\ reloaded' = Decode(content_json, id, clock)
  /\ dpc' = "reloaded"
  /\ UNCHANGED <<envVars, wrapper, toolVars, batchVars, validateVars,
                 parseVars, kbVars, multiVars, gen_json, built_obj, content_json,
                 content_markdown>>

NextDocument ==
  \/ \E id \in FreshIds : Load(id)
  \/ Dump
  \/ Render
  \/ \E id \in FreshIds : Reload(id)

InitDocument ==
  /\ InitEnv /\ IdleRetry /\ IdleTool /\ IdleBatch /\ IdleValidate /\ IdleParse /\ IdleKb /\ IdleMulti
  /\ dpc = "start"
  /\ gen_json \in GenJsons
  /\ built_obj = None
  /\ content_json = None
  /\ content_markdown = None
  /\ reloaded = None

SpecDocument == InitDocument /\ [][NextDocument]_vars

(***************************************************************************)
(* Properties of the Assessment built from the generator's document.       *)
(***************************************************************************)
\* an Assessment was built from the document
Built == dpc \in {"built", "dumped", "rendered", "reloaded"}

\* the module_source values of the questions of a
QuestionModules(a) ==
  {a.multiple_choice_questions[i].module_source :
     i \in 1..Len(a.multiple_choice_questions)}
  \cup {a.open_ended_questions[i].module_source :
          i \in 1..Len(a.open_ended_questions)}

\* C12: no Assessment whose questions span fewer than 5 distinct
\* module_source values is constructed from the generator's JSON, and none
\* is handed to storage.
C12_DiverseQuestionsOnly ==
  /\ Built => Cardinality(QuestionModules(built_obj.value)) >= 5
  /\ content_json # None =>
       Cardinality(QuestionModules(content_json.doc)) >= 5

\* the content prepared for storage has questions from 3 modules and a
\* modules_covered list of 5 names or more
C12_Witness ==
  /\ content_json # None
  /\ Cardinality(QuestionModules(content_json.doc)) = 3
  /\ Len(content_json.doc.modules_covered) >= 5

\* C13: in every Assessment constructed, each question's module_source is
\* an element of modules_covered.
C13_SourcesAreCovered ==
  Built => QuestionModules(built_obj.value)
             \subseteq SeqToSet(built_obj.value.modules_covered)

\* an Assessment was built whose modules_covered names none of the modules
\* of its first two questions
C13_Witness ==
  /\ Built
  /\ \A i \in {1, 2} :
       built_obj.value.multiple_choice_questions[i].module_source
         \notin SeqToSet(built_obj.value.modules_covered)

\* the questions of a document or of an object, MC first
QuestionsOf(a) == a.multiple_choice_questions \o a.open_ended_questions

\* C15: every question of the generator's JSON that carries citations
\* (kb_document_sources) carries the same citations in the JSON content
\* written to storage.
C15_CitationsStored ==
  content_json # None =>
    \A i \in 1..Len(QuestionsOf(gen_json.doc)) :
       "kb_document_sources" \in DOMAIN QuestionsOf(gen_json.doc)[i] =>
          /\ "kb_document_sources" \in DOMAIN QuestionsOf(content_json.doc)[i]
          /\ QuestionsOf(content_json.doc)[i].kb_document_sources
               = QuestionsOf(gen_json.doc)[i].kb_document_sources

\* the JSON content of a document whose questions all carry citations
C15_Witness ==
  /\ content_json # None
  /\ \A i \in 1..Len(QuestionsOf(gen_json.doc)) :
       "kb_document_sources" \in DOMAIN QuestionsOf(gen_json.doc)[i]
  /\ QuestionsOf(content_json.doc)[1].question_text
       = QuestionsOf(gen_json.doc)[1].question_text

IsQuestionLine(l) == l.kind = "question"

\* the numbered section a line belongs to: the number of headings so far
SectionOf(k) ==
  Cardinality({j \in 1..k : IsQuestionLine(content_markdown[j])})

\* the option lines of the n-th numbered section, in order
OptionLines(n) ==
  LET at == SortedList({k \in 1..Len(content_markdown) :
                          /\ content_markdown[k].kind = "option"
                          /\ SectionOf(k) = n})
  IN [j \in 1..Len(at) |-> content_markdown[at[j]]]

QuestionLines == SelectSeq(content_markdown, IsQuestionLine)

\* C16: the markdown of a valid Assessment has 7 numbered MC sections,
\* numbered 1..7, then 3 numbered OE sections, numbered 8..10; each MC
\* section lists the 4 options of its question, and exactly one of them,
\* the one at correct_answer_index, carries the correct marker.
C16_MarkdownSections ==
  content_markdown # None =>
    /\ [i \in 1..Len(QuestionLines) |-> QuestionLines[i].number]
         = <<1, 2, 3, 4, 5, 6, 7, 8, 9, 10>>
    /\ [i \in 1..Len(QuestionLines) |-> QuestionLines[i].qtype]
         = <<"MC", "MC", "MC", "MC", "MC", "MC", "MC", "OE", "OE", "OE">>
    /\ \A n \in 1..7 :
         LET opts == OptionLines(n)
             q == built_obj.value.multiple_choice_questions[n]
         IN /\ Len(opts) = 4
            /\ \A j \in 1..4 :
                 /\ opts[j].option = q.options[j]
                 /\ opts[j].letter = 64 + j
                 /\ opts[j].marker <=> (j - 1 = q.correct_answer_index)
            /\ Cardinality({j \in 1..4 : opts[j].marker}) = 1
    /\ \A n \in {0, 8, 9, 10} : OptionLines(n) = <<>>

\* a rendered assessment with a metadata block, where option D of
\* question 4 and option A of question 5 carry the marker
C16_Witness ==
  /\ content_markdown # None
  /\ OptionLines(4)[4].marker
  /\ OptionLines(5)[1].marker
  /\ content_markdown[Len(content_markdown)].kind = "difficulty_distribution"

BeginnerWords ==
  <<<<98, 101, 103, 105, 110, 110, 101, 114>>,
    <<110, 101, 119>>,
    <<110, 111, 32, 101, 120, 112, 101, 114, 105, 101, 110, 99, 101>>,
    <<106, 117, 115, 116, 32, 115, 116, 97, 114, 116, 105, 110, 103>>>>

\* "expert", "senior", "10+ years", "experienced"
ExpertWords ==
  <<<<101, 120, 112, 101, 114, 116>>,
    <<115, 101, 110, 105, 111, 114>>,
    <<49, 48, 43, 32, 121, 101, 97, 114, 115>>,
    <<101, 120, 112, 101, 114, 105, 101, 110, 99, 101, 100>>>>

\* "advanced", "proficient", "5+ years"
AdvancedWords ==
  <<<<97, 100, 118, 97, 110, 99, 101, 100>>,
    <<112, 114, 111, 102, 105, 99, 105, 101, 110, 116>>,
    <<53, 43, 32, 121, 101, 97, 114, 115>>>>

\* "software", "data", "engineering", "teaching", "business", "healthcare"
domains ==
  <<<<115, 111, 102, 116, 119, 97, 114, 101>>,
    <<100, 97, 116, 97>>,
    <<101, 110, 103, 105, 110, 101, 101, 114, 105, 110, 103>>,
    <<116, 101, 97, 99, 104, 105, 110, 103>>,
    <<98, 117, 115, 105, 110, 101, 115, 115>>,
    <<104, 101, 97, 108, 116, 104, 99, 97, 114, 101>>>>

\* the tokens a text is put together from: "new", "renewal", "EXPERT",
\* "advanced", "5+ years", "7", superscript two, Arabic-Indic three,
\* "software", "Data", "cook"
Vocabulary ==
  <<<<110, 101, 119>>,
    <<114, 101, 110, 101, 119, 97, 108>>,
    <<69, 88, 80, 69, 82, 84>>,
    <<97, 100, 118, 97, 110, 99, 101, 100>>,
    <<53, 43, 32, 121, 101, 97, 114, 115>>,
    <<55>>,
    <<178>>,
    <<1635>>,
    <<115, 111, 102, 116, 119, 97, 114, 101>>,
    <<68, 97, 116, 97>>,
    <<99, 111, 111, 107>>>>

\* "5+ years of software development experience"
FiveYearsText ==
  <<53, 43, 32, 121, 101, 97, 114, 115, 32, 111, 102, 32, 115, 111, 102,
     116, 119, 97, 114, 101, 32, 100, 101, 118, 101, 108, 111, 112, 109,
     101, 110, 116, 32, 101, 120, 112, 101, 114, 105, 101, 110, 99, 101>>

\* word in text
Contains(text, word) ==
  \E i \in 0..(Len(text) - Len(word)) :
     \A k \in 1..Len(word) : text[i + k] = word[k]

\* any(word in text for word in words)
ContainsAny(text, words) ==
  \E n \in 1..Len(words) : Contains(text, words[n])

\* str.split(): the runs of characters that are not whitespace
RECURSIVE SplitFrom(_, _)
SplitFrom(text, word) ==
  IF text = <<>> THEN IF word = <<>> THEN <<>> ELSE <<word>>
  ELSE IF IsSpace(Head(text))
  THEN (IF word = <<>> THEN <<>> ELSE <<word>>) \o SplitFrom(Tail(text), <<>>)
  ELSE SplitFrom(Tail(text), Append(word, Head(text)))

split(text) == SplitFrom(text, <<>>)

\* the decimal digits: ASCII and Arabic-Indic
DecimalDigits == (48..57) \cup (1632..1641)

\* digits that are no decimal digits: superscript two, three and one
OtherDigits == {178, 179, 185}

\* str.isdigit()
isdigit(word) ==
  word # <<>> /\ \A k \in 1..Len(word) : word[k] \in DecimalDigits \cup OtherDigits

DigitValue(c) == IF c \in 48..57 THEN c - 48 ELSE c - 1632

\* int(word), for a word of digits: ValueError unless all are decimal
int(word) ==
  LET value[k \in 0..Len(word)] ==
        IF k = 0 THEN 0 ELSE 10 * value[k - 1] + DigitValue(word[k])
  IN IF \A k \in 1..Len(word) : word[k] \in DecimalDigits
     THEN [raised |-> "none", value |-> value[Len(word)]]
     ELSE [raised |-> "ValueError", value |-> 0]

\* the levels tried in the order expert, beginner, advanced
ExperienceLevelExpertFirst(background_lower) ==
  IF ContainsAny(background_lower, ExpertWords) THEN "expert"
  ELSE IF ContainsAny(background_lower, BeginnerWords) THEN "beginner"
  ELSE IF ContainsAny(background_lower, AdvancedWords) THEN "advanced"
  ELSE "intermediate"

\* lines 310-317
ExperienceLevel(background_lower) ==
  IF ContainsAny(background_lower, BeginnerWords) THEN "beginner"
  ELSE IF ContainsAny(background_lower, ExpertWords) THEN "expert"
  ELSE IF ContainsAny(background_lower, AdvancedWords) THEN "advanced"
  ELSE "intermediate"

\* an Optional[int] holds None or an int, an Optional[str] None or a str
BoxInt(n) == [int |-> n]

BoxStr(t) == [str |-> t]

\* lines 320-324: the first word of digits, converted
YearsExperience(words) ==
  LET found == {n \in 1..Len(words) : isdigit(words[n])}
      first == CHOOSE n \in found : \A k \in found : n <= k
  IN IF found = {} THEN [raised |-> "none", value |-> None]
     ELSE IF int(words[first]).raised # "none"
     THEN [raised |-> int(words[first]).raised, value |-> None]
     ELSE [raised |-> "none", value |-> BoxInt(int(words[first]).value)]

\* lines 327-332: the first domain of the list found in the text
Domain(background_lower) ==
  LET found == {n \in 1..Len(domains) : Contains(background_lower, domains[n])}
      first == CHOOSE n \in found : \A k \in found : n <= k
  IN IF found = {} THEN None ELSE BoxStr(domains[first])

\* UserBackgroundProfile(...): years_experience, when given, is >= 0
UserBackgroundProfile(background_text, experience_level, domain, years_experience) ==
  IF \/ experience_level \notin {"beginner", "intermediate", "advanced", "expert"}
     \/ (years_experience # None /\ years_experience.int < 0)
  THEN [raised |-> "ValidationError", value |-> None]
  ELSE [raised |-> "none",
        value |-> [background_text |-> background_text,
                   experience_level |-> experience_level,
                   domain |-> domain,
                   years_experience |-> years_experience]]

parse_user_background_simple(background_text) ==
  LET background_lower == Lower(background_text)
      experience_level == ExperienceLevel(background_lower)
      years_experience == YearsExperience(split(background_text))
      domain == Domain(background_lower)
  IN IF years_experience.raised # "none"
     THEN [raised |-> years_experience.raised, value |-> None]
     ELSE UserBackgroundProfile(background_text, experience_level, domain,
                                years_experience.value)

\* the texts of up to n tokens, joined by one space
RECURSIVE TextsOf(_)
TextsOf(n) ==
  IF n = 0 THEN {<<>>}
  ELSE TextsOf(n - 1) \cup
       {IF t = <<>> THEN Vocabulary[v] ELSE t \o <<32>> \o Vocabulary[v] :
          t \in TextsOf(n - 1), v \in 1..Len(Vocabulary)}

BackgroundTexts == TextsOf(MaxWords) \cup {FiveYearsText, <<32>>}

Parse ==
  /\ ppc = "start"
  /\ profile' = parse_user_background_simple(ptext)
  /\ ppc' = "parsed"
  /\ UNCHANGED <<envVars, wrapper, toolVars, batchVars, validateVars,
                 documentVars, kbVars, multiVars, ptext>>

NextParse == Parse

InitParse ==
  /\ InitEnv /\ IdleRetry /\ IdleTool /\ IdleBatch /\ IdleValidate
  /\ IdleDocument /\ IdleKb /\ IdleMulti
  /\ ppc = "start"
  /\ ptext \in BackgroundTexts
  /\ profile = None

SpecParse == InitParse /\ [][NextParse]_vars

(***************************************************************************)
(* Claims about parse_user_background_simple, checked under SpecParse.     *)
(***************************************************************************)
Parsed == ppc = "parsed"

Returned == Parsed /\ profile.raised = "none"

\* C18: parse_user_background_simple applied to the text "5+ years of
\* software development experience" returns experience level 'advanced',
\* domain 'software' and years_experience = 5.
C18_FiveYearsOfSoftware ==
  (Parsed /\ ptext = FiveYearsText) =>
     /\ profile.raised = "none"
     /\ profile.value.experience_level = "advanced"
     /\ profile.value.domain = BoxStr(domains[1])
     /\ profile.value.years_experience = BoxInt(5)

\* the text of C18 has been parsed: the level and the domain are found
C18_Witness ==
  /\ Returned
  /\ ptext = FiveYearsText
  /\ profile.value.experience_level = "advanced"
  /\ profile.value.domain = BoxStr(domains[1])

HasBeginner == ContainsAny(Lower(ptext), BeginnerWords)

HasExpert == ContainsAny(Lower(ptext), ExpertWords)

HasAdvanced == ContainsAny(Lower(ptext), AdvancedWords)

\* C19: the experience level is chosen by first match in the order
\* beginner, expert, advanced, intermediate, by case-insensitive substring
\* matching: a text with a beginner keyword is beginner even when it also
\* holds expert or advanced keywords; otherwise an expert keyword gives
\* expert even when advanced keywords are present; otherwise an advanced
\* keyword gives advanced; otherwise the level is intermediate.
C19_FirstMatchWins ==
  Returned =>
     /\ HasBeginner => profile.value.experience_level = "beginner"
     /\ (~HasBeginner /\ HasExpert) =>
           profile.value.experience_level = "expert"
     /\ (~HasBeginner /\ ~HasExpert /\ HasAdvanced) =>
           profile.value.experience_level = "advanced"
     /\ (~HasBeginner /\ ~HasExpert /\ ~HasAdvanced) =>
           profile.value.experience_level = "intermediate"

\* a text holding "new", "EXPERT" in capitals and "advanced" is beginner
C19_Witness ==
  /\ Returned
  /\ Contains(ptext, BeginnerWords[2])
  /\ Contains(ptext, Vocabulary[3]) /\ ~Contains(ptext, ExpertWords[1])
  /\ Contains(ptext, AdvancedWords[1])
  /\ profile.value.experience_level = "beginner"

\* a token all of whose characters are decimal digits
HasIntegerToken ==
  \E n \in 1..Len(split(ptext)) :
     /\ split(ptext)[n] # <<>>
     /\ \A k \in 1..Len(split(ptext)[n]) : split(ptext)[n][k] \in DecimalDigits

HasDomain == ContainsAny(Lower(ptext), domains)

\* C20: parse_user_background_simple never fails: for every input text
\* (the empty string and texts whose tokens are digits of any kind
\* included) it returns a profile without raising, and a text with no
\* recognised keyword, no integer token and no vocabulary word yields
\* experience level 'intermediate', domain None and years_experience None.
C20_NeverFails ==
  Parsed =>
     /\ profile.raised = "none"
     /\ (~HasBeginner /\ ~HasExpert /\ ~HasAdvanced /\ ~HasIntegerToken
         /\ ~HasDomain) =>
           /\ profile.value.experience_level = "intermediate"
           /\ profile.value.domain = None
           /\ profile.value.years_experience = None

\* the text of the one character superscript two has been parsed
C20_Witness ==
  /\ Parsed
  /\ ptext = <<178>>
  /\ profile.raised = "ValueError"

(***************************************************************************)
(* kb_tools.py: extract_modules_from_overview and gather_diverse_content.  *)
(***************************************************************************)
\* text.split(sep): the parts between the separators, empty ones included
SplitOn(text, sep) ==
  LET at == SortedList({i \in 1..Len(text) : text[i] = sep})
      from(k) == IF k = 1 THEN 1 ELSE at[k - 1] + 1
      to(k) == IF k = Len(at) + 1 THEN Len(text) ELSE at[k] - 1
  IN [k \in 1..(Len(at) + 1) |-> SubSeq(text, from(k), to(k))]

\* result.get('content', {}).get('text', '')
ContentText(res) ==
  IF "content" \in DOMAIN res /\ "text" \in DOMAIN res.content
  THEN res.content.text
  ELSE <<>>

\* lines 196-200: the texts that are not blank
ContentTexts(overview_results) ==
  Concat([i \in 1..Len(overview_results) |->
            IF Strip(ContentText(overview_results[i])) # <<>>
            THEN <<ContentText(overview_results[i])>>
            ELSE <<>>])

\* 'module', 'course', 'unit', 'chapter'
ModuleKeywords ==
  <<<<109, 111, 100, 117, 108, 101>>,
    <<99, 111, 117, 114, 115, 101>>,
    <<117, 110, 105, 116>>,
    <<99, 104, 97, 112, 116, 101, 114>>>>

\* line.split(':')[0].split('.')[0].strip()
ModuleNameOf(line) == Strip(SplitOn(SplitOn(line, 58)[1], 46)[1])

\* lines 207-217 for one text
NamesIn(text) ==
  LET lines == SplitOn(text, 10)
  IN Concat([i \in 1..Len(lines) |->
               LET line == Strip(lines[i])
                   module_name == ModuleNameOf(line)
               IN IF /\ ContainsAny(Lower(line), ModuleKeywords)
                     /\ module_name # <<>>
                     /\ Len(module_name) < MaxNameLen
                  THEN <<module_name>>
                  ELSE <<>>])

\* lines 220-225: the first of the names that are equal in lower case
UniqueModules(names) ==
  LET step[k \in 0..Len(names)] ==
        IF k = 0 THEN [seen |-> {}, unique_modules |-> <<>>]
        ELSE IF Lower(names[k]) \in step[k - 1].seen THEN step[k - 1]
        ELSE [seen |-> step[k - 1].seen \cup {Lower(names[k])},
              unique_modules |-> Append(step[k - 1].unique_modules, names[k])]
  IN step[Len(names)].unique_modules

\* str(n) of a number that is not negative
RECURSIVE FormatInt(_)
FormatInt(n) ==
  IF n < 10 THEN <<48 + n>> ELSE FormatInt(n \div 10) \o <<48 + (n % 10)>>

\* a fallback that numbers the names from the index i
GenericNameFromIndex(level, i) ==
  <<76, 101, 118, 101, 108, 32>> \o FormatInt(level)
    \o <<32, 77, 111, 100, 117, 108, 101, 32>> \o FormatInt(i)

\* f"Level {level} Module {i+1}"
GenericName(level, i) ==
  <<76, 101, 118, 101, 108, 32>> \o FormatInt(level)
    \o <<32, 77, 111, 100, 117, 108, 101, 32>> \o FormatInt(i + 1)

\* lines 228-231: for i in range(len(unique_modules), 6)
Padded(unique_modules, level) ==
  IF Len(unique_modules) < TargetModules
  THEN unique_modules \o
       [k \in 1..(TargetModules - Len(unique_modules)) |->
          GenericName(level, Len(unique_modules) + k - 1)]
  ELSE unique_modules

extract_modules_from_overview(overview_results, level) ==
  LET content_texts == ContentTexts(overview_results)
      names == Concat([t \in 1..Len(content_texts) |-> NamesIn(content_texts[t])])
  IN Padded(UniqueModules(names), level)

(***************************************************************************)
(* Overview results: the first n lines of a catalogue of module headings,  *)
(* one other line put in among them, cut into one or two passages.         *)
(***************************************************************************)
\* "Module", "Course", "Unit", "Chapter"
Headings ==
  <<<<77, 111, 100, 117, 108, 101>>,
    <<67, 111, 117, 114, 115, 101>>,
    <<85, 110, 105, 116>>,
    <<67, 104, 97, 112, 116, 101, 114>>>>

\* the i-th heading of the catalogue: "Course B. topic", "Unit C: topic", ...
CatalogLine(i) ==
  Headings[(i % 4) + 1] \o <<32, 64 + i>>
    \o (IF i % 2 = 1 THEN <<58, 32>> ELSE <<46, 32>>) \o <<116, 111, 112, 105, 99>>

OtherLines == {"none", "case", "spaces", "generic", "GENERIC", "plain",
               "noname", "long", "blank"}

\* the other line: a heading that repeats the first of the catalogue in
\* lower case or between spaces, one that reads like a generic name, a line
\* without a keyword, one with nothing before the colon, one of 100
\* characters, an empty one
OtherLine(kind, level) ==
  IF kind = "case" THEN Lower(CatalogLine(1))
  ELSE IF kind = "spaces" THEN <<32, 9>> \o CatalogLine(1) \o <<32>>
  ELSE IF kind = "generic"
  THEN GenericName(level, TargetModules - 1) \o <<58, 32>> \o <<116, 111, 112, 105, 99>>
  ELSE IF kind = "GENERIC"
  THEN [i \in 1..Len(GenericName(level, TargetModules - 2)) |->
          LET c == GenericName(level, TargetModules - 2)[i]
          IN IF c \in 97..122 THEN c - 32 ELSE c]
  ELSE IF kind = "plain" THEN <<73, 110, 116, 114, 111, 100, 117, 99, 116, 105, 111, 110>>
  ELSE IF kind = "noname" THEN <<58, 32>> \o <<85, 110, 105, 116>>
  ELSE IF kind = "long" THEN <<85, 110, 105, 116>> \o [i \in 1..(MaxNameLen - 4) |-> 120]
  ELSE <<>>

\* '\n'.join(lines)
RECURSIVE JoinLines(_)
JoinLines(lines) ==
  IF lines = <<>> THEN <<>>
  ELSE IF Len(lines) = 1 THEN lines[1]
  ELSE lines[1] \o <<10>> \o JoinLines(Tail(lines))

Passage(text) == [content |-> [text |-> text]]

\* a retrieval result without text content
BarePassage == [location |-> "s3"]

OverviewOf(n, kind, pos, cut, bare, level) ==
  LET catalog == [i \in 1..n |-> CatalogLine(i)]
      at == IF pos > n THEN n ELSE pos
      lines == IF kind = "none" THEN catalog
               ELSE SubSeq(catalog, 1, at) \o <<OtherLine(kind, level)>>
                    \o SubSeq(catalog, at + 1, n)
      upto == IF cut > Len(lines) THEN Len(lines) ELSE cut
      one == Passage(JoinLines(SubSeq(lines, 1, upto)))
      two == Passage(JoinLines(SubSeq(lines, upto + 1, Len(lines))))
  IN (IF bare THEN <<BarePassage>> ELSE <<>>) \o <<one, two>>

OverviewInputs(level) ==
  {<<>>} \cup
  {OverviewOf(n, kind, pos, cut, bare, level) :
     n \in 0..MaxNames, kind \in OtherLines, pos \in {0, 1, MaxNames},
     cut \in {0, 1, MaxNames + 1}, bare \in BOOLEAN}

KbLevels == {1, 2}

Extract ==
  /\ kpc = "start"
  /\ kmodules' = extract_modules_from_overview(koverview, klevel)
  /\ kpc' = "extracted"
  /\ UNCHANGED <<envVars, wrapper, toolVars, batchVars, validateVars,
                 documentVars, parseVars, multiVars, klevel, ktarget,
                 koverview, kqueries, kcontent, kexc>>

NextExtract == Extract

InitExtract ==
  /\ InitEnv /\ IdleRetry /\ IdleTool /\ IdleBatch /\ IdleValidate
  /\ IdleDocument /\ IdleParse /\ IdleMulti
  /\ kpc = "start"
  /\ klevel \in KbLevels
  /\ ktarget = 0
  /\ koverview \in OverviewInputs(klevel)
  /\ kmodules = <<>>
  /\ kqueries = <<>>
  /\ kcontent = EmptyDict
  /\ kexc = NoExc

SpecExtract == InitExtract /\ [][NextExtract]_vars

(***************************************************************************)
(* Properties of extract_modules_from_overview, checked under SpecExtract. *)
(***************************************************************************)
Extracted == kpc = "extracted"

\* the names found in the overview, each once, in the order found
Discovered ==
  LET texts == ContentTexts(koverview)
  IN UniqueModules(Concat([t \in 1..Len(texts) |-> NamesIn(texts[t])]))

\* 'Level {level} Module {i}' for one-digit numbers
Placeholder(level, i) ==
  <<76, 101, 118, 101, 108, 32>> \o <<48 + level>> \o <<32, 77, 111, 100, 117, 108, 101, 32>> \o <<48 + i>>

\* C21: extract_modules_from_overview returns at least 6 module names for
\* every input, an empty result list included: the discovered names come
\* first, in discovery order, and when fewer than 6 distinct names are
\* discovered the list has exactly 6 entries, the missing positions i
\* filled with 'Level {level} Module {i}'.
C21_AtLeastSixNames ==
  Extracted =>
    LET found == Discovered
    IN /\ Len(kmodules) >= 6
       /\ SubSeq(kmodules, 1, Len(found)) = found
       /\ Len(found) < 6 =>
            /\ Len(kmodules) = 6
            /\ \A i \in (Len(found) + 1)..6 :
                 kmodules[i] = Placeholder(klevel, i)
       /\ Len(found) >= 6 => kmodules = found

\* three names were discovered and three positions were filled
C21_Witness ==
  /\ Extracted
  /\ Len(Discovered) = 3
  /\ Len(kmodules) = 6
  /\ kmodules[4] = Placeholder(klevel, 4)

\* C29: the list returned by extract_modules_from_overview holds no two
\* names that are equal ignoring case, padding entries included, so no
\* module name is queried twice and no module's content is overwritten.
C29_NoNameTwice ==
  Extracted =>
    \A i, j \in 1..Len(kmodules) :
       i # j => Lower(kmodules[i]) # Lower(kmodules[j])

\* a discovered name and a padding entry are equal ignoring case
C29_Witness ==
  /\ Extracted
  /\ \E i \in 1..Len(Discovered) :
       \E j \in (Len(Discovered) + 1)..Len(kmodules) :
          Lower(kmodules[i]) = Lower(kmodules[j])

(***************************************************************************)
(* gather_diverse_content: the overview query, then one query per module.  *)
(***************************************************************************)
KbErrorCodes ==
  {"ResourceNotFoundException", "AccessDeniedException", "ThrottlingException"}

\* what client.retrieve does: a response with its retrievalResults, a
\* ClientError with a code, or an exception that is no ClientError
Retrieved(rs) == [type |-> "ok", code |-> "none", results |-> rs]

RetrieveFailures ==
  {[type |-> "ClientError", code |-> c, results |-> <<>>] : c \in KbErrorCodes}
  \cup {[type |-> "EndpointConnectionError", code |-> "none", results |-> <<>>]}

\* KnowledgeBaseClient.query, lines 73-95
query(o) ==
  IF o.type = "ok" THEN [raised |-> "none", value |-> o.results]
  ELSE IF o.type # "ClientError" THEN [raised |-> o.type, value |-> <<>>]
  ELSE IF o.code = "ResourceNotFoundException"
  THEN [raised |-> "ValueError", value |-> <<>>]
  ELSE IF o.code = "AccessDeniedException"
  THEN [raised |-> "PermissionError", value |-> <<>>]
  ELSE [raised |-> "RuntimeError", value |-> <<>>]

\* modules[:target_module_count]
Slice(names, n) ==
  IF n >= 0 THEN SubSeq(names, 1, IF n < Len(names) THEN n ELSE Len(names))
  ELSE SubSeq(names, 1, IF Len(names) + n > 0 THEN Len(names) + n ELSE 0)

\* the entry of the log for a query and what came of it
Issued(kind, module_name, max_results, q) ==
  [kind |-> kind, module_name |-> module_name, level |-> klevel,
   max_results |-> max_results, raised |-> q.raised, results |-> q.value]

\* lines 175-176: if module_results: module_content[module_name] = ...
Store(content, module_name, module_results) ==
  IF module_results # <<>>
  THEN [m \in DOMAIN content \cup {module_name} |->
          IF m = module_name THEN module_results ELSE content[m]]
  ELSE content

\* lines 162-169: the overview query and the extraction
OverviewQuery(o) ==
  /\ kpc = "start"
  /\ LET q == query(o)
     IN /\ kqueries' = Append(kqueries, Issued("overview", <<>>, 8, q))
        /\ IF q.raised # "none"
           THEN /\ kpc' = "raised"
                /\ kexc' = [type |-> q.raised, code |-> "none"]
                /\ UNCHANGED <<koverview, kmodules>>
           ELSE /\ koverview' = q.value
                /\ kmodules' = extract_modules_from_overview(q.value, klevel)
                /\ kpc' = "modules"
                /\ UNCHANGED kexc
  /\ UNCHANGED <<envVars, wrapper, toolVars, batchVars, validateVars,
                 documentVars, parseVars, multiVars, klevel, ktarget,
                 kcontent>>

\* lines 170-176: one turn of the loop
ModuleQuery(o) ==
  /\ kpc = "modules"
  /\ Len(kqueries) <= Len(Slice(kmodules, ktarget))
  /\ LET module_name == Slice(kmodules, ktarget)[Len(kqueries)]
         q == query(o)
     IN /\ kqueries' = Append(kqueries, Issued("module", module_name, 3, q))
        /\ IF q.raised # "none"
           THEN /\ kpc' = "raised"
                /\ kexc' = [type |-> q.raised, code |-> "none"]
                /\ UNCHANGED kcontent
           ELSE /\ kcontent' = Store(kcontent, module_name, q.value)
                /\ UNCHANGED <<kpc, kexc>>
  /\ UNCHANGED <<envVars, wrapper, toolVars, batchVars, validateVars,
                 documentVars, parseVars, multiVars, klevel, ktarget,
                 koverview, kmodules>>

\* line 178
GatherReturn ==
  /\ kpc = "modules"
  /\ Len(kqueries) > Len(Slice(kmodules, ktarget))
  /\ kpc' = "returned"
  /\ UNCHANGED <<envVars, wrapper, toolVars, batchVars, validateVars,
                 documentVars, parseVars, multiVars, klevel, ktarget,
                 koverview, kmodules, kqueries, kcontent, kexc>>

\* what the overview query may retrieve
GatherOverviews(level) ==
  {<<>>,
   OverviewOf(MaxNames, "none", 0, 0, FALSE, level),
   OverviewOf(3, "case", 1, 1, TRUE, level),
   OverviewOf(0, "generic", 0, 0, FALSE, level)}

\* what the k-th query for a module may retrieve: one passage, or none
ModuleResults(k) == {<<Passage(<<80, 48 + k>>)>>, <<>>}

Targets == {0, 2, TargetModules, TargetModules + 1}

NextGather ==
  \/ \E o \in {Retrieved(rs) : rs \in GatherOverviews(klevel)}
              \cup RetrieveFailures : OverviewQuery(o)
  \/ \E o \in {Retrieved(rs) : rs \in ModuleResults(Len(kqueries))}
              \cup RetrieveFailures : ModuleQuery(o)
  \/ GatherReturn

InitGather ==
  /\ InitEnv /\ IdleRetry /\ IdleTool /\ IdleBatch /\ IdleValidate
  /\ IdleDocument /\ IdleParse /\ IdleMulti
  /\ kpc = "start"
  /\ klevel \in KbLevels
  /\ ktarget \in Targets
  /\ koverview = <<>>
  /\ kmodules = <<>>
  /\ kqueries = <<>>
  /\ kcontent = EmptyDict
  /\ kexc = NoExc

SpecGather == InitGather /\ [][NextGather]_vars

(***************************************************************************)
(* Properties of gather_diverse_content, checked under SpecGather.         *)
(***************************************************************************)
\* the function is over: it returned or an exception left it
Ended == kpc \in {"returned", "raised"}

\* the k-th query was a module query that raised
ModuleQueryFailed(k) ==
  kqueries[k].kind = "module" /\ kqueries[k].raised # "none"

\* C22: when the retrieval query for one module fails, the run is not
\* aborted: the remaining modules are still queried and the content
\* gathered for the other modules is returned.
C22_ModuleFailureNotFatal ==
  \A k \in 1..Len(kqueries) :
     ModuleQueryFailed(k) =>
        /\ kpc # "raised"
        /\ Ended => /\ kpc = "returned"
                    /\ Len(kqueries) = 1 + Len(Slice(kmodules, ktarget))

\* the query of the second module raised after the first module's content
\* had been gathered, with modules still to query
C22_Witness ==
  /\ kpc = "raised"
  /\ Len(kqueries) = 3
  /\ ModuleQueryFailed(3)
  /\ kcontent # EmptyDict
  /\ Len(Slice(kmodules, ktarget)) > 2

\* the names to query: the first min(target_module_count, number of names)
Wanted ==
  [k \in 1..(IF ktarget < Len(kmodules) THEN ktarget ELSE Len(kmodules)) |->
     kmodules[k]]

\* C27: gather_diverse_content issues exactly one overview query before any
\* module query, then exactly one query for each of the first
\* min(target_module_count, number of names) module names, in list order,
\* so 1 + min(target_module_count, number of names) queries in total; a
\* module whose query returns zero passages is absent from the result and
\* the entries of the other modules are unaffected.
C27_OneQueryPerModule ==
  /\ \A k \in 1..Len(kqueries) :
        IF k = 1 THEN kqueries[k].kind = "overview"
        ELSE /\ kqueries[k].kind = "module"
             /\ k - 1 <= Len(Wanted)
             /\ kqueries[k].module_name = Wanted[k - 1]
  /\ Ended =>
       /\ Len(kqueries) = 1 + Len(Wanted)
       /\ \A k \in 2..Len(kqueries) :
            IF kqueries[k].results = <<>>
            THEN kqueries[k].module_name \notin DOMAIN kcontent
            ELSE /\ kqueries[k].module_name \in DOMAIN kcontent
                 /\ kcontent[kqueries[k].module_name] = kqueries[k].results

\* a run that returned after six module queries, one of which gave nothing
C27_Witness ==
  /\ kpc = "returned"
  /\ Len(kqueries) = 7
  /\ \E k \in 2..7 : kqueries[k].results = <<>>
  /\ \E k \in 2..7 : kqueries[k].results # <<>>

(***************************************************************************)
(* A multi-level request: one level worker per requested level, run in     *)
(* parallel, and the MultiLevelAssessmentResult built from what they give. *)
(***************************************************************************)
MultiLevelFields ==
  {"assessments", "total_time_seconds", "parallel_speedup_percent",
   "levels_generated"}

MultiLevelRequired == {"assessments", "total_time_seconds", "levels_generated"}

MultiLevelDefaults == [parallel_speedup_percent |-> None]

\* validate_levels: all levels are 1-4
validate_levels(v) == \A i \in 1..Len(v) : v[i] \in MinLevel..MaxLevel

\* MultiLevelAssessmentResult(**d): the declared fields, validated
MultiLevelAssessmentResult(d) ==
  IF \/ ~(MultiLevelRequired \subseteq DOMAIN d)
     \/ Len(d.assessments) < 1
     \/ d.total_time_seconds < 0
     \/ ~validate_levels(d.levels_generated)
  THEN [raised |-> "ValidationError", value |-> None]
  ELSE [raised |-> "none",
        value |-> BuildModel(d, MultiLevelFields, MultiLevelDefaults)]

\* the levels of a request: two or more, in ascending order
RequestedLevels ==
  {SortedList(S) : S \in {T \in SUBSET (MinLevel..MaxLevel) :
                            Cardinality(T) \in 2..MaxRequested}}

\* the results of the workers that succeeded (ok) or failed, as collected
Collected(ok) ==
  LET at == SortedList({i \in 1..Len(mdone) : mdone[i].ok = ok})
  IN [k \in 1..Len(at) |-> mdone[at[k]]]

\* a level worker ends, with an assessment or with a failure
WorkerEnd(l, ok) ==
  /\ mpc = "running"
  /\ l \in SeqToSet(mlevels)
  /\ \A i \in 1..Len(mdone) : mdone[i].level # l
  /\ mdone' = Append(mdone, [level |-> l, ok |-> ok])
  /\ mpc' = IF Len(mdone) + 1 = Len(mlevels) THEN "waited" ELSE "running"
  /\ UNCHANGED <<envVars, wrapper, toolVars, batchVars, validateVars,
                 documentVars, parseVars, kbVars, mlevels, mresult>>

\* all workers have ended: the aggregate is built from what was collected
Aggregate ==
  /\ mpc = "waited"
  /\ mresult' =
       MultiLevelAssessmentResult(
         [assessments |->
            [k \in 1..Len(Collected(TRUE)) |->
               MkAssessment(Collected(TRUE)[k].level)],
          total_time_seconds |-> clock,
          parallel_speedup_percent |-> None,
          levels_generated |->
            [k \in 1..Len(Collected(TRUE)) |-> Collected(TRUE)[k].level],
          failed_levels |->
            [k \in 1..Len(Collected(FALSE)) |-> Collected(FALSE)[k].level]])
  /\ mpc' = "done"
  /\ UNCHANGED <<envVars, wrapper, toolVars, batchVars, validateVars,
                 documentVars, parseVars, kbVars, mlevels, mdone>>

NextMulti ==
  \/ \E l \in MinLevel..MaxLevel, ok \in BOOLEAN : WorkerEnd(l, ok)
  \/ Aggregate

InitMulti ==
  /\ InitEnv /\ IdleRetry /\ IdleTool /\ IdleBatch /\ IdleValidate
  /\ IdleDocument /\ IdleParse /\ IdleKb
  /\ mpc = "running"
  /\ mlevels \in RequestedLevels
  /\ mdone = <<>>
  /\ mresult = None

SpecMulti == InitMulti /\ [][NextMulti]_vars

(***************************************************************************)
(* Properties of the multi-level result, checked under SpecMulti.          *)
(***************************************************************************)
OkLevels == {mdone[i].level : i \in {j \in 1..Len(mdone) : mdone[j].ok}}

FailedLevels == {mdone[i].level : i \in {j \in 1..Len(mdone) : ~mdone[j].ok}}

\* the levels of the assessments of the result, in their order
AssessmentLevels ==
  [k \in 1..Len(mresult.value.assessments) |->
     mresult.value.assessments[k].level]

\* C23: when some level workers fail and at least one succeeds, the result
\* holds exactly the assessments of the succeeding levels together with an
\* explicit record of every failed level; a failed level is never silently
\* dropped and never makes the whole request a total failure.
C23_FailedLevelsRecorded ==
  (mpc = "done" /\ OkLevels # {} /\ FailedLevels # {}) =>
    /\ mresult.raised = "none"
    /\ SeqToSet(AssessmentLevels) = OkLevels
    /\ Len(AssessmentLevels) = Cardinality(OkLevels)
    /\ "failed_levels" \in DOMAIN mresult.value
    /\ SeqToSet(mresult.value.failed_levels) = FailedLevels

\* a result with the assessments of two levels, a third level having failed
C23_Witness ==
  /\ mpc = "done"
  /\ mresult.raised = "none"
  /\ Cardinality(FailedLevels) = 1
  /\ Len(AssessmentLevels) = 2
  /\ SeqToSet(AssessmentLevels) = OkLevels

Ascending(s) == \A i, j \in 1..Len(s) : i < j => s[i] < s[j]

\* C24: for every completion order of the level workers the result lists
\* the generated levels, and their assessments, in ascending level number.
C24_AscendingLevels ==
  (mpc = "done" /\ mresult.raised = "none") =>
    /\ Ascending(mresult.value.levels_generated)
    /\ Ascending(AssessmentLevels)

\* all workers succeeded and a higher level finished before a lower one
C24_Witness ==
  /\ mpc = "done"
  /\ mresult.raised = "none"
  /\ FailedLevels = {}
  /\ \E i, j \in 1..Len(mdone) : i < j /\ mdone[i].level > mdone[j].level

=============================================================================
